---- MODULE Spec2Model ----
(***************************************************************************)
(* A model of the JSON-RPC endpoint of RustLSP (crate melnorme_json_rpc): *)
(* the RPC object model and its parser (jsonrpc_objects.rs), the Endpoint, *)
(* the ResponseCompletable, the MapRequestHandler and the message read     *)
(* loop (jsonrpc.rs), running against the output agent (a single worker    *)
(* thread that owns the output stream).                                    *)
(***************************************************************************)
EXTENDS Integers, Sequences, FiniteSets, TLC

(***************************************************************************)
(* Bounds of the model.                                                    *)
(***************************************************************************)
\* how many times the read loop calls read_next
MaxReads == 2
\* how many operations the application thread performs on the EndpointHandle
MaxAppOps == 2
\* how many characters the payload of a framed message has
MaxPayload == 2

(***************************************************************************)
(* Option and Result values.                                               *)
(***************************************************************************)
None == [some |-> FALSE]
Some(x) == [some |-> TRUE, v |-> x]
Ok(x) == [ok |-> TRUE, v |-> x]
Err(e) == [ok |-> FALSE, err |-> e]

(***************************************************************************)
(* 64-bit unsigned integers as four 16-bit limbs, most significant first   *)
(* (the values of u64 do not fit the integers of the model checker).       *)
(***************************************************************************)
Limb == 65536

\* the u64 whose value is the small natural number n
U64(n) == <<0, 0, n \div Limb, n % Limb>>

\* 'number as u64' of an i64: two's complement, 2^64 + number when negative
as_u64(number) ==
    IF number >= 0 THEN U64(number)
    ELSE LET k == (-number) - 1
         IN <<Limb - 1, Limb - 1, (Limb - 1) - (k \div Limb), (Limb - 1) - (k % Limb)>>

\* an i64 is the four limbs of its two's complement; I64(number) is the i64 whose
\* value is the small integer number
I64(number) == as_u64(number)

\* whether an i64 is negative: its sign bit
is_negative(n) == n[1] >= Limb \div 2

\* a u32 is two limbs; U32(n) is the u32 whose value is the small natural number n
U32(n) == <<n \div Limb, n % Limb>>

\* 'code as i32 as i64': the sign of the 32 bits is extended
u32_as_i64_through_i32(code) ==
    IF code[1] >= Limb \div 2 THEN <<Limb - 1, Limb - 1, code[1], code[2]>>
    ELSE <<0, 0, code[1], code[2]>>

\* 'code as i64' of a u32: the 32 bits are extended with zeros
u32_as_i64(code) == <<0, 0, code[1], code[2]>>

(***************************************************************************)
(* serde_json::Value.  An object is a function from its keys to values.    *)
(***************************************************************************)
Value_Null == [t |-> "Null"]
Value_Bool(b) == [t |-> "Bool", b |-> b]
Value_I64(n) == [t |-> "I64", i |-> n]
Value_U64(n) == [t |-> "U64", u |-> n]
Value_F64(f) == [t |-> "F64", f |-> f]
Value_String(s) == [t |-> "String", s |-> s]
Value_Array(a) == [t |-> "Array", a |-> a]
Value_Object(o) == [t |-> "Object", o |-> o]

JsonObject_new == [k \in {} |-> Value_Null]

\* JsonObject::remove(key): the value, if any, and the object without the key
remove(map, key) ==
    IF key \in DOMAIN map
    THEN [value |-> Some(map[key]), map |-> [k \in DOMAIN map \ {key} |-> map[k]]]
    ELSE [value |-> None, map |-> map]

\* a text that is not JSON, and the text of a JSON value
NotJson(diag) == [json |-> FALSE, diag |-> diag]
JsonText(value) == [json |-> TRUE, val |-> value]

\* serde_json::from_str
from_str(message) ==
    IF message.json THEN Ok(message.val) ELSE Err(message.diag)

(***************************************************************************)
(* JSON-RPC 2.0 object types.                                              *)
(***************************************************************************)
RpcId_Number(n) == [t |-> "Number", n |-> n]
RpcId_String(s) == [t |-> "String", s |-> s]
RpcId_Null == [t |-> "Null"]

RequestParams_Object(o) == [t |-> "Object", o |-> o]
RequestParams_Array(a) == [t |-> "Array", a |-> a]
RequestParams_None == [t |-> "None"]

JsonRpcRequest(id, method, params) == [id |-> id, method |-> method, params |-> params]

ResponseResult_Result(value) == [t |-> "Result", value |-> value]
ResponseResult_Error(error) == [t |-> "Error", error |-> error]

JsonRpcResponse(id, result_or_error) == [id |-> id, result_or_error |-> result_or_error]

RpcError(code, message, data) == [code |-> code, message |-> message, data |-> data]

RpcError_new(code, message) == RpcError(code, message, None)

new_error(id, error) == JsonRpcResponse(id, ResponseResult_Error(error))

JsonRpcMessage_Request(request) == [t |-> "Request", request |-> request]
JsonRpcMessage_Response(response) == [t |-> "Response", response |-> response]

CodeParseError == -32700
CodeInvalidRequest == -32600
CodeMethodNotFound == -32601
CodeInvalidParams == -32602

error_JSON_RPC_ParseError(error) ==
    RpcError_new(I64(CodeParseError), "Invalid JSON was received by the server: " \o error)
error_JSON_RPC_InvalidRequest(error) ==
    RpcError_new(I64(CodeInvalidRequest), "The JSON sent is not a valid Request object: " \o error)
error_JSON_RPC_MethodNotFound ==
    RpcError_new(I64(CodeMethodNotFound), "The method does not exist / is not available.")
error_JSON_RPC_InvalidParams(error) ==
    RpcError_new(I64(CodeInvalidParams), "Invalid method parameter(s): " \o error)

(***************************************************************************)
(* Serialization (impl serde::Serialize): the JSON value that is written.  *)
(***************************************************************************)
\* an i64 written as text: read back, a negative number is an I64 (of the numbers
\* from -2^31 on the model holds the value), any other a U64
serialize_i64(n) ==
    IF is_negative(n) THEN Value_I64((n[3] - Limb) * Limb + n[4]) ELSE Value_U64(n)

serialize_RpcId(id) ==
    CASE id.t = "Null" -> Value_Null
      [] id.t = "Number" -> Value_U64(id.n)
      [] id.t = "String" -> Value_String(id.s)

serialize_RequestParams(params) ==
    CASE params.t = "Object" -> Value_Object(params.o)
      [] params.t = "Array" -> Value_Array(params.a)
      [] params.t = "None" -> Value_Null

into_value(params) == serialize_RequestParams(params)

\* a variant that leaves params out when there are none
serialize_JsonRpcRequest_omitting_no_params(request) ==
    LET base == IF request.params.t = "None"
                THEN [jsonrpc |-> Value_String("2.0"),
                      method |-> Value_String(request.method)]
                ELSE [jsonrpc |-> Value_String("2.0"),
                      method |-> Value_String(request.method),
                      params |-> serialize_RequestParams(request.params)]
    IN IF request.id.some
       THEN Value_Object([k \in DOMAIN base \cup {"id"} |->
                             IF k = "id" THEN serialize_RpcId(request.id.v) ELSE base[k]])
       ELSE Value_Object(base)

serialize_JsonRpcRequest(request) ==
    LET base == [jsonrpc |-> Value_String("2.0"),
                 method |-> Value_String(request.method),
                 params |-> serialize_RequestParams(request.params)]
    IN IF request.id.some
       THEN Value_Object([k \in DOMAIN base \cup {"id"} |->
                             IF k = "id" THEN serialize_RpcId(request.id.v) ELSE base[k]])
       ELSE Value_Object(base)

\* a variant that writes data: null when there is no data
serialize_RpcError_with_null_data(error) ==
    Value_Object([code |-> serialize_i64(error.code),
                  message |-> Value_String(error.message),
                  data |-> IF error.data.some THEN error.data.v ELSE Value_Null])

serialize_RpcError(error) ==
    IF error.data.some
    THEN Value_Object([code |-> serialize_i64(error.code),
                       message |-> Value_String(error.message),
                       data |-> error.data.v])
    ELSE Value_Object([code |-> serialize_i64(error.code),
                       message |-> Value_String(error.message)])

serialize_JsonRpcResponse(response) ==
    IF response.result_or_error.t = "Result"
    THEN Value_Object([jsonrpc |-> Value_String("2.0"),
                       id |-> serialize_RpcId(response.id),
                       result |-> response.result_or_error.value])
    ELSE Value_Object([jsonrpc |-> Value_String("2.0"),
                       id |-> serialize_RpcId(response.id),
                       error |-> serialize_RpcError(response.result_or_error.error)])

serialize_JsonRpcMessage(rpc_message) ==
    IF rpc_message.t = "Request"
    THEN serialize_JsonRpcRequest(rpc_message.request)
    ELSE serialize_JsonRpcResponse(rpc_message.response)

\* a value as its text gives it back: a number written without a sign is read as U64
RECURSIVE written(_)
written(value) ==
    CASE value.t = "I64" -> IF value.i < 0 THEN value ELSE Value_U64(U64(value.i))
      [] value.t = "Array" -> Value_Array([k \in DOMAIN value.a |-> written(value.a[k])])
      [] value.t = "Object" -> Value_Object([k \in DOMAIN value.o |-> written(value.o[k])])
      [] OTHER -> value

\* serde_json::to_string
to_string(rpc_message) == JsonText(written(serialize_JsonRpcMessage(rpc_message)))

(***************************************************************************)
(* JSON-RPC custom deserialization.                                        *)
(***************************************************************************)
\* how a diagnostic names a value (the diagnostics quote names with a grave accent,
\* written ' in this module)
ShowValue(value) ==
    IF value.t = "Null" THEN "null" ELSE value.t

\* JsonDeserializerHelper::as_Object
as_Object(value) ==
    IF value.t = "Object" THEN Ok(value.o)
    ELSE Err(error_JSON_RPC_InvalidRequest("Value '" \o ShowValue(value) \o "' is not an Object."))

\* JsonDeserializerHelper::obtain_Value
obtain_Value(map, key) ==
    IF key \in DOMAIN map THEN Ok(map[key])
    ELSE Err(error_JSON_RPC_InvalidRequest("Property '" \o key \o "' is missing."))

\* JsonDeserializerHelper::obtain_String
obtain_String(map, key) ==
    IF key \notin DOMAIN map
    THEN Err(error_JSON_RPC_InvalidRequest("Property '" \o key \o "' is missing."))
    ELSE IF map[key].t = "String" THEN Ok(map[key].s)
    ELSE Err(error_JSON_RPC_InvalidRequest("Value '" \o ShowValue(map[key]) \o "' is not a String."))

\* a variant that takes a scalar for no params
parse_jsonrpc_params_taking_scalars(params) ==
    CASE params.t = "Object" -> Ok(RequestParams_Object(params.o))
      [] params.t = "Array" -> Ok(RequestParams_Array(params.a))
      [] OTHER -> Ok(RequestParams_None)

parse_jsonrpc_params(params) ==
    CASE params.t = "Object" -> Ok(RequestParams_Object(params.o))
      [] params.t = "Array" -> Ok(RequestParams_Array(params.a))
      [] params.t = "Null" -> Ok(RequestParams_None)
      [] OTHER -> Err("Property 'params' not an Object, Array, or null.")

\* a variant that drops the sign of a negative id
parse_jsonrpc_id_dropping_sign(id) ==
    IF ~id.some THEN Ok(None)
    ELSE CASE id.v.t = "I64" -> Ok(Some(RpcId_Number(U64(IF id.v.i < 0 THEN -id.v.i
                                                         ELSE id.v.i))))
           [] id.v.t = "U64" -> Ok(Some(RpcId_Number(id.v.u)))
           [] id.v.t = "String" -> Ok(Some(RpcId_String(id.v.s)))
           [] id.v.t = "Null" -> Ok(None)
           [] OTHER -> Err(error_JSON_RPC_InvalidRequest("Property 'id' not a String or integer."))

\* a variant that keeps the id null
parse_jsonrpc_id_keeping_null(id) ==
    IF ~id.some THEN Ok(None)
    ELSE CASE id.v.t = "I64" -> Ok(Some(RpcId_Number(as_u64(id.v.i))))
           [] id.v.t = "U64" -> Ok(Some(RpcId_Number(id.v.u)))
           [] id.v.t = "String" -> Ok(Some(RpcId_String(id.v.s)))
           [] id.v.t = "Null" -> Ok(Some(RpcId_Null))
           [] OTHER -> Err(error_JSON_RPC_InvalidRequest("Property 'id' not a String or integer."))

parse_jsonrpc_id(id) ==
    IF ~id.some THEN Ok(None)
    ELSE CASE id.v.t = "I64" -> Ok(Some(RpcId_Number(as_u64(id.v.i))))
           [] id.v.t = "U64" -> Ok(Some(RpcId_Number(id.v.u)))
           [] id.v.t = "String" -> Ok(Some(RpcId_String(id.v.s)))
           [] id.v.t = "Null" -> Ok(None)
           [] OTHER -> Err(error_JSON_RPC_InvalidRequest("Property 'id' not a String or integer."))

\* a variant that obtains the method before it parses the id
parse_jsonrpc_request_jsonObject_method_first(request_map) ==
    LET jsonrpc == obtain_String(request_map, "jsonrpc")
        id == parse_jsonrpc_id(remove(request_map, "id").value)
        method == obtain_String(request_map, "method")
        params == obtain_Value(request_map, "params")
    IN IF ~jsonrpc.ok THEN jsonrpc
       ELSE IF jsonrpc.v # "2.0"
       THEN Err(error_JSON_RPC_InvalidRequest("Property 'jsonrpc' is not \"2.0\". "))
       ELSE IF ~method.ok THEN method
       ELSE IF ~id.ok THEN id
       ELSE IF ~params.ok THEN params
       ELSE LET parsed == parse_jsonrpc_params(params.v)
            IN IF ~parsed.ok THEN Err(error_JSON_RPC_InvalidRequest(parsed.err))
               ELSE Ok(JsonRpcRequest(id.v, method.v, parsed.v))

parse_jsonrpc_request_jsonObject(request_map) ==
    LET jsonrpc == obtain_String(request_map, "jsonrpc")
        id == parse_jsonrpc_id(remove(request_map, "id").value)
        method == obtain_String(request_map, "method")
        params == obtain_Value(request_map, "params")
    IN IF ~jsonrpc.ok THEN jsonrpc
       ELSE IF jsonrpc.v # "2.0"
       THEN Err(error_JSON_RPC_InvalidRequest("Property 'jsonrpc' is not \"2.0\". "))
       ELSE IF ~id.ok THEN id
       ELSE IF ~method.ok THEN method
       ELSE IF ~params.ok THEN params
       ELSE LET parsed == parse_jsonrpc_params(params.v)
            IN IF ~parsed.ok THEN Err(error_JSON_RPC_InvalidRequest(parsed.err))
               ELSE Ok(JsonRpcRequest(id.v, method.v, parsed.v))

parse_jsonrpc_request(message) ==
    LET json_value == from_str(message)
    IN IF ~json_value.ok THEN Err(error_JSON_RPC_ParseError(json_value.err))
       ELSE LET json_request_obj == as_Object(json_value.v)
            IN IF ~json_request_obj.ok THEN json_request_obj
               ELSE parse_jsonrpc_request_jsonObject(json_request_obj.v)

(***************************************************************************)
(* Typed handlers: parameter decoding (serde_json::from_value) and the     *)
(* method functions registered in the MapRequestHandler.                   *)
(***************************************************************************)
\* the i32 of a JSON number, if it is one
decode_i32(value) ==
    CASE value.t = "I64" -> Ok(value.i)
      [] value.t = "U64" /\ value.u[1] = 0 /\ value.u[2] = 0 /\ value.u[3] < Limb \div 2
            -> Ok(value.u[3] * Limb + value.u[4])
      [] OTHER -> Err("invalid type: expected i32")

\* Point { x : i32, y : i32 }
decode_Point(value) ==
    IF value.t # "Object" THEN Err("invalid type: expected a struct")
    ELSE IF "x" \notin DOMAIN value.o THEN Err("missing field \"x\"")
    ELSE IF "y" \notin DOMAIN value.o THEN Err("missing field \"y\"")
    ELSE IF ~decode_i32(value.o["x"]).ok THEN decode_i32(value.o["x"])
    ELSE IF ~decode_i32(value.o["y"]).ok THEN decode_i32(value.o["y"])
    ELSE Ok([x |-> decode_i32(value.o["x"]).v, y |-> decode_i32(value.o["y"]).v])

\* Vec<u32>
decode_Vec_u32(value) ==
    IF value.t # "Array" THEN Err("invalid type: expected a sequence")
    ELSE IF \E i \in DOMAIN value.a :
               ~(value.a[i].t = "U64" /\ value.a[i].u[1] = 0 /\ value.a[i].u[2] = 0)
    THEN Err("invalid type: expected u32")
    ELSE Ok(value.a)

\* the unit type ()
decode_Unit(value) ==
    IF value.t = "Null" THEN Ok(Value_Null) ELSE Err("invalid type: expected unit")

\* TextDocumentPositionParams { textDocument, position }
decode_TextDocumentPositionParams(value) ==
    IF value.t # "Object" THEN Err("invalid type: expected a struct")
    ELSE IF "textDocument" \notin DOMAIN value.o THEN Err("missing field \"textDocument\"")
    ELSE IF "position" \notin DOMAIN value.o THEN Err("missing field \"position\"")
    ELSE Ok(value.o)

from_value(params_type, params_value) ==
    CASE params_type = "Point" -> decode_Point(params_value)
      [] params_type = "Vec<u32>" -> decode_Vec_u32(params_value)
      [] params_type = "Unit" -> decode_Unit(params_value)
      [] params_type = "TextDocumentPositionParams"
            -> decode_TextDocumentPositionParams(params_value)

\* sample_fn: Ok(x_str + y_str)
sample_fn(params) == Ok(Value_String(ToString(params.x) \o ToString(params.y)))

\* the handler of test_JsonRpcDispatcher: the length of the params, as a string
handler(params) == Ok(Value_String(ToString(Len(params))))

\* DummyLanguageServer::error_not_available(())
error_not_available ==
    [code |-> U32(1), message |-> "Functionality not implemented.", data |-> Value_Null]

\* DummyLanguageServer::completion
completion(params) == Err(error_not_available)

\* DummyLanguageServer::exit
exit(params) == Value_Null

\* a registered method function: its parameter type and what it returns
method_fn_type(fn) ==
    CASE fn = "sample_fn" -> "Point"
      [] fn = "completion" -> "TextDocumentPositionParams"
      [] fn = "exit" -> "Unit"
      [] fn = "handler" -> "Vec<u32>"

call_method_fn(fn, params) ==
    CASE fn = "sample_fn" -> sample_fn(params)
      [] fn = "completion" -> completion(params)
      [] fn = "exit" -> Ok(exit(params))
      [] fn = "handler" -> handler(params)

\* the handlers test_Endpoint registers: add_request("my_method", sample_fn) and
\* add_rpc_handler("async_method", async_method)
test_method_handlers ==
    [my_method |-> [kind |-> "add_request", fn |-> "sample_fn"],
     async_method |-> [kind |-> "add_rpc_handler", fn |-> "sample_fn"]]

\* two of the handlers the language server registers: add_request("completion", ..)
\* and add_notification("exit", ..)
lsp_method_handlers ==
    [completion |-> [kind |-> "add_request", fn |-> "completion"],
     exit |-> [kind |-> "add_notification", fn |-> "exit"]]

\* MapRequestHandler.method_handlers
method_handlers == test_method_handlers @@ lsp_method_handlers

\* ServiceError to RpcError
service_error_to_rpc_error(error) ==
    RpcError(u32_as_i64(error.code), error.message, Some(error.data))

\* ResponseResult::from_service_result
from_service_result(svc_result) ==
    IF svc_result.ok THEN ResponseResult_Result(svc_result.v)
    ELSE ResponseResult_Error(RpcError(u32_as_i64(svc_result.err.code),
                                       svc_result.err.message,
                                       Some(svc_result.err.data)))

\* invoke_method_with_fn: the Option<ResponseResult> to complete with.  notification is
\* TRUE for the wrapper of sync_handle_notification, whose method_fn returns None.
invoke_method_with_fn(params, fn, notification) ==
    LET params_value == into_value(params)
        params_result == from_value(method_fn_type(fn), params_value)
    IN IF ~params_result.ok
       THEN Some(ResponseResult_Error(error_JSON_RPC_InvalidParams(params_result.err)))
       ELSE LET result == call_method_fn(fn, params_result.v)
            IN IF notification THEN None
               ELSE IF result.ok THEN Some(ResponseResult_Result(result.v))
               ELSE Some(ResponseResult_Error(service_error_to_rpc_error(result.err)))

(***************************************************************************)
(* ResponseCompletable.                                                    *)
(***************************************************************************)
\* ResponseCompletable::new, for the inbound message number req (0: none)
ResponseCompletable_new(req, id) ==
    [req |-> req, id |-> id, completion_flag |-> FALSE, calls |-> 0,
     dropped |-> FALSE, drop_panic |-> FALSE]

\* FinishedFlag::finish
finish(completable) == [completable EXCEPT !.completion_flag = TRUE]

\* the drop of a ResponseCompletable: its FinishedFlag panics when it is not finished
drop(completable) ==
    [completable EXCEPT !.dropped = TRUE, !.drop_panic = ~completable.completion_flag]

\* a variant that builds no response when the request has no id
complete_response_silent_without_id(id, rpc_result) ==
    IF rpc_result.some /\ id.some
    THEN Some(JsonRpcResponse(id.v, rpc_result.v))
    ELSE None

\* a variant that answers every request that has an id
complete_response_answering_none(id, rpc_result) ==
    IF rpc_result.some
    THEN IF id.some
         THEN Some(JsonRpcResponse(id.v, rpc_result.v))
         ELSE Some(new_error(RpcId_Null,
                    error_JSON_RPC_InvalidRequest("Property 'id' not provided for request.")))
    ELSE IF id.some
         THEN Some(JsonRpcResponse(id.v, ResponseResult_Result(Value_Null)))
         ELSE None

\* a variant that passes the result on with id Null when the request has no id
complete_response_passing_without_id(id, rpc_result) ==
    IF rpc_result.some
    THEN Some(JsonRpcResponse(IF id.some THEN id.v ELSE RpcId_Null, rpc_result.v))
    ELSE None

\* the response complete builds
complete_response(id, rpc_result) ==
    IF rpc_result.some
    THEN IF id.some
         THEN Some(JsonRpcResponse(id.v, rpc_result.v))
         ELSE Some(new_error(RpcId_Null,
                    error_JSON_RPC_InvalidRequest("Property 'id' not provided for request.")))
    ELSE None

\* a variant that finishes the flag after on_response has returned
complete_finishing_last(completable, rpc_result, callback_panics) ==
    LET response == complete_response(completable.id, rpc_result)
        panicked == response.some /\ callback_panics
        called == [completable EXCEPT !.calls = @ + 1]
    IN [completable |-> drop(IF panicked THEN called ELSE finish(called)),
        response |-> response,
        panicked |-> panicked]

\* ResponseCompletable::complete: finishes the flag, then invokes on_response with the
\* response, then (consumed) is dropped, also when on_response panics
\* (callback_panics says whether on_response panics on Some(response)).
complete(completable, rpc_result, callback_panics) ==
    LET finished == [finish(completable) EXCEPT !.calls = @ + 1]
        response == complete_response(completable.id, rpc_result)
    IN [completable |-> drop(finished),
        response |-> response,
        panicked |-> response.some /\ callback_panics]

\* a variant that keeps silent when the request has no id
sync_handle_request_silent_without_id(completable, params, fn, callback_panics) ==
    complete(completable,
             IF completable.id.some THEN invoke_method_with_fn(params, fn, FALSE) ELSE None,
             callback_panics)

sync_handle_request(completable, params, fn, callback_panics) ==
    complete(completable, invoke_method_with_fn(params, fn, FALSE), callback_panics)

\* a variant of sync_handle_notification that answers like a request
sync_handle_notification_responding(completable, params, fn, callback_panics) ==
    complete(completable, invoke_method_with_fn(params, fn, FALSE), callback_panics)

sync_handle_notification(completable, params, fn, callback_panics) ==
    complete(completable, invoke_method_with_fn(params, fn, TRUE), callback_panics)

complete_with_error(completable, error, callback_panics) ==
    complete(completable, Some(ResponseResult_Error(error)), callback_panics)

\* a variant that drops the completable of an unknown method without completing it
do_invoke_method_dropping_unknown(method_name, completable, request_params, callback_panics) ==
    IF method_name \in DOMAIN method_handlers
    THEN LET h == method_handlers[method_name]
         IN CASE h.kind = "add_request" ->
                    [spawn |-> FALSE,
                     done |-> sync_handle_request(completable, request_params, h.fn,
                                                  callback_panics)]
              [] h.kind = "add_notification" ->
                    [spawn |-> FALSE,
                     done |-> sync_handle_notification(completable, request_params, h.fn,
                                                       callback_panics)]
              [] h.kind = "add_rpc_handler" ->
                    [spawn |-> TRUE,
                     thread |-> [completable |-> completable, params |-> request_params,
                                 fn |-> h.fn]]
    ELSE [spawn |-> FALSE,
          done |-> [completable |-> drop(completable), response |-> None,
                    panicked |-> FALSE]]

\* MapRequestHandler::do_invoke_method: what becomes of the completable.  A handler of
\* add_rpc_handler (async_method) moves it, with the params, to a new thread.
do_invoke_method(method_name, completable, request_params, callback_panics) ==
    IF method_name \in DOMAIN method_handlers
    THEN LET h == method_handlers[method_name]
         IN CASE h.kind = "add_request" ->
                    [spawn |-> FALSE,
                     done |-> sync_handle_request(completable, request_params, h.fn,
                                                  callback_panics)]
              [] h.kind = "add_notification" ->
                    [spawn |-> FALSE,
                     done |-> sync_handle_notification(completable, request_params, h.fn,
                                                       callback_panics)]
              [] h.kind = "add_rpc_handler" ->
                    [spawn |-> TRUE,
                     thread |-> [completable |-> completable, params |-> request_params,
                                 fn |-> h.fn]]
    ELSE [spawn |-> FALSE,
          done |-> complete_with_error(completable, error_JSON_RPC_MethodNotFound,
                                       callback_panics)]

(***************************************************************************)
(* The output agent: a queue of write tasks and one worker thread that     *)
(* owns the output stream.  A task is the number of its submission.        *)
(***************************************************************************)
\* OutputAgent::try_submit_task: rejected once the agent is shut down
try_submit_task(tasks, is_shutdown, task) ==
    IF is_shutdown THEN Err("Output agent is shutdown") ELSE Ok(Append(tasks, task))

\* a variant that submits the write task twice
submit_write_task_twice(tasks, is_shutdown, task) ==
    LET res == try_submit_task(tasks, is_shutdown, task)
    IN [queue |-> IF res.ok THEN Append(res.v, task) ELSE tasks,
        accepted |-> res.ok,
        panicked |-> ~res.ok,
        poisons |-> FALSE]

\* a variant whose task overtakes the tasks that wait
submit_write_task_in_front(tasks, is_shutdown, task) ==
    LET res == try_submit_task(tasks, is_shutdown, task)
    IN [queue |-> IF res.ok THEN <<task>> \o tasks ELSE tasks,
        accepted |-> res.ok,
        panicked |-> ~res.ok,
        poisons |-> FALSE]

\* a variant that logs a rejected submission instead of panicking
submit_write_task_ignoring_rejection(tasks, is_shutdown, task) ==
    LET res == try_submit_task(tasks, is_shutdown, task)
    IN [queue |-> IF res.ok THEN res.v ELSE tasks,
        accepted |-> res.ok,
        panicked |-> FALSE,
        poisons |-> FALSE]

\* a variant that unwraps the result of try_submit_task inside the block that holds
\* the lock
submit_write_task_panicking_under_lock(tasks, is_shutdown, task) ==
    LET res == try_submit_task(tasks, is_shutdown, task)
    IN [queue |-> IF res.ok THEN res.v ELSE tasks,
        accepted |-> res.ok,
        panicked |-> ~res.ok,
        poisons |-> ~res.ok]

\* submit_write_task: the queue after it, whether it panics (on a rejected
\* submission), and whether it panics holding the mutex of the output agent, which
\* poisons the mutex: never, the lock is released at the end of the block of
\* try_submit_task and the result is unwrapped after it
submit_write_task(tasks, is_shutdown, task) ==
    LET res == try_submit_task(tasks, is_shutdown, task)
    IN [queue |-> IF res.ok THEN res.v ELSE tasks,
        accepted |-> res.ok,
        panicked |-> ~res.ok,
        poisons |-> FALSE]

(***************************************************************************)
(* Endpoint::handle_message and Endpoint::handle_request: what one call    *)
(* does, given whether a write submission would panic.                     *)
(***************************************************************************)
\* the on_response callback of handle_request: the message it submits, if any
on_response(response) ==
    IF response.some THEN Some(JsonRpcMessage_Response(response.v)) ELSE None

handle_request(req, request, callback_panics) ==
    LET completable == ResponseCompletable_new(req, request.id)
        r == do_invoke_method(request.method, completable, request.params, callback_panics)
    IN IF r.spawn
       THEN [completable |-> Some(completable), thread |-> Some(r.thread),
             write |-> None, panicked |-> FALSE]
       ELSE [completable |-> Some(r.done.completable), thread |-> None,
             write |-> on_response(r.done.response),
             panicked |-> r.done.panicked]

\* a variant that gives up on a message that does not parse
handle_message_failing_on_parse_error(req, message, callback_panics) ==
    LET parsed == parse_jsonrpc_request(message)
    IN IF parsed.ok
       THEN handle_request(req, parsed.v, callback_panics)
       ELSE [completable |-> None, thread |-> None,
             write |-> Some(JsonRpcMessage_Response(new_error(RpcId_Null, parsed.err))),
             panicked |-> TRUE]

\* a variant that answers a message that does not parse with the id it finds in it
handle_message_echoing_id(req, message, callback_panics) ==
    LET parsed == parse_jsonrpc_request(message)
        has_id == message.json /\ message.val.t = "Object" /\ "id" \in DOMAIN message.val.o
        id == IF has_id THEN parse_jsonrpc_id(Some(message.val.o["id"])) ELSE Ok(None)
    IN IF parsed.ok
       THEN handle_request(req, parsed.v, callback_panics)
       ELSE [completable |-> None, thread |-> None,
             write |-> Some(JsonRpcMessage_Response(
                          new_error(IF id.ok /\ id.v.some THEN id.v.v ELSE RpcId_Null,
                                    parsed.err))),
             panicked |-> callback_panics]

handle_message(req, message, callback_panics) ==
    LET parsed == parse_jsonrpc_request(message)
    IN IF parsed.ok
       THEN handle_request(req, parsed.v, callback_panics)
       ELSE [completable |-> None, thread |-> None,
             write |-> Some(JsonRpcMessage_Response(new_error(RpcId_Null, parsed.err))),
             panicked |-> callback_panics]

\* a variant that submits the request before it looks at the params
do_send_request_submitting_first(id, method_name, params_value, callback_panics) ==
    LET params == parse_jsonrpc_params(params_value)
        sent == IF params.ok THEN params.v ELSE RequestParams_None
    IN [result |-> IF params.ok THEN Ok("future") ELSE Err(params.err),
        write |-> Some(JsonRpcMessage_Request(JsonRpcRequest(id, method_name, sent))),
        panicked |-> callback_panics]

\* Endpoint::do_send_request
do_send_request(id, method_name, params_value, callback_panics) ==
    LET params == parse_jsonrpc_params(params_value)
    IN IF ~params.ok
       THEN [result |-> Err(params.err), write |-> None, panicked |-> FALSE]
       ELSE [result |-> Ok("future"),
             write |-> Some(JsonRpcMessage_Request(JsonRpcRequest(id, method_name, params.v))),
             panicked |-> callback_panics]

\* a notification sent with the id null
send_notification_with_null_id(method_name, params_value, callback_panics) ==
    LET sent == do_send_request(Some(RpcId_Null), method_name, params_value, callback_panics)
    IN IF sent.result.ok THEN [sent EXCEPT !.result = Ok("()")] ELSE sent

\* Endpoint::send_notification: do_send_request with the id None, whose future is
\* completed and dropped
send_notification(method_name, params_value, callback_panics) ==
    LET sent == do_send_request(None, method_name, params_value, callback_panics)
    IN IF sent.result.ok THEN [sent EXCEPT !.result = Ok("()")] ELSE sent

(***************************************************************************)
(* The inputs of the model.                                                *)
(***************************************************************************)
PointParams == Value_Object([x |-> Value_U64(U64(10)), y |-> Value_U64(U64(20))])

Request(id, method, params) ==
    JsonText(Value_Object([jsonrpc |-> Value_String("2.0"), id |-> id,
                           method |-> Value_String(method), params |-> params]))

Notification(method, params) ==
    JsonText(Value_Object([jsonrpc |-> Value_String("2.0"),
                           method |-> Value_String(method), params |-> params]))

\* "{"
MsgNotJson == NotJson("EOF while parsing an object")
MsgWrongVersion ==
    JsonText(Value_Object([jsonrpc |-> Value_String("1.0"), id |-> Value_U64(U64(1)),
                           method |-> Value_String("x"),
                           params |-> Value_Object(JsonObject_new)]))
MsgRequest == Request(Value_U64(U64(1)), "my_method", PointParams)
MsgNegativeId == Request(Value_I64(-1), "my_method", Value_Object(JsonObject_new))
MsgUnknownMethod == Request(Value_String("a"), "m", Value_Object(JsonObject_new))
MsgUnknownNegativeId == Request(Value_I64(-1), "m", Value_Object(JsonObject_new))
MsgNotification == Notification("my_method", PointParams)
MsgExit == Notification("exit", Value_Null)
MsgExitWithId == Request(Value_U64(U64(3)), "exit", Value_Null)
MsgAsync == Request(Value_U64(U64(4)), "async_method", PointParams)
MsgCompletion ==
    Request(Value_U64(U64(5)), "completion",
            Value_Object([textDocument |-> Value_String("file:///a"),
                          position |-> Value_Array(<<Value_U64(U64(0)), Value_U64(U64(0))>>)]))

InputMessages ==
    {MsgNotJson, MsgWrongVersion, MsgRequest, MsgNegativeId, MsgUnknownMethod,
     MsgUnknownNegativeId,
     MsgNotification, MsgExit, MsgExitWithId, MsgAsync, MsgCompletion}

\* the errors of MessageReader::read_next
ReadErrors == {"unexpected end of file", "Content-Length: not defined or invalid."}

\* What the peer, the output stream and the application do in a run.  In the first
\* scenario the peer sends any of the input messages, writes to the output stream may
\* fail and the application thread does nothing; in the second the application thread
\* runs against a peer that sends a malformed message, a request of a synchronous
\* method or a request of the asynchronous one, and the writes succeed.
Scenarios ==
    {[inputs |-> {Ok(m) : m \in InputMessages} \cup {Err(e) : e \in ReadErrors},
      write_errors |-> TRUE,
      app_budget |-> 0],
     [inputs |-> {Ok(MsgNotJson), Ok(MsgRequest), Ok(MsgAsync),
                  Err("unexpected end of file")},
      write_errors |-> FALSE,
      app_budget |-> MaxAppOps]}

\* the params the application sends
SendParams == {PointParams, Value_U64(U64(7))}

(***************************************************************************)
(* The state.                                                              *)
(***************************************************************************)
VARIABLES
    inputs,             \* what read_next may return in this run
    write_errors,       \* whether write_message may return an error in this run
    app_budget,         \* how many operations the application thread may perform
    reader_pc,          \* where the thread of run_message_read_loop is
    message,            \* what its last read_next returned
    nreads,             \* how many times it has called read_next
    reader_result,      \* what run_message_read_loop returned, if it has
    read_log,           \* the messages read_next returned, in order
    handled,            \* the messages passed to handle_message, in order
    completables,       \* every ResponseCompletable created
    handler_threads,    \* the threads async_method spawned, not yet run
    agent_shutdown,     \* OutputAgent::is_shutdown
    agent_mutex,        \* the holder of the mutex of the output agent, or "poisoned"
    queue,              \* the tasks accepted and not yet taken by the worker
    worker_pc,          \* where the worker thread is
    worker_task,        \* the task it executes
    output,             \* what was written to the output stream
    failed_writes,      \* the tasks whose write_message returned an error
    submits,            \* every call of submit_write_task
    panics,             \* the panics of the threads
    aborted,            \* a panic while panicking
    endpoint_mutex,     \* the holder of the mutex of the EndpointHandle
    endpoint_poisoned,  \* a thread panicked holding it
    app_pc,             \* where the application thread is
    app_ops,            \* how many operations it has started
    app_result,         \* what its last operation returned
    fn_pc,              \* where a single call of a function is ("none": no such call)
    fn_in,              \* the function called and its arguments
    fn_out              \* what the call returned

vars ==
    <<inputs, write_errors, app_budget, reader_pc, message, nreads, reader_result, read_log, handled, completables,
      handler_threads, agent_shutdown, agent_mutex, queue, worker_pc, worker_task,
      output, failed_writes, submits, panics, aborted, endpoint_mutex,
      endpoint_poisoned, app_pc, app_ops, app_result, fn_pc, fn_in, fn_out>>

fnVars == <<fn_pc, fn_in, fn_out>>
envVars == <<inputs, write_errors, app_budget, fnVars>>
readerVars == <<reader_pc, message, nreads, reader_result, read_log, handled>>
appVars == <<app_pc, app_ops, app_result>>
workerVars == <<worker_pc, worker_task, output, failed_writes>>
lockVars == <<agent_mutex, endpoint_mutex, endpoint_poisoned>>

\* Endpoint::start_with_output_agent, before run_message_read_loop
start_with_output_agent ==
    /\ reader_pc = "read_next"
    /\ message = Err("")
    /\ nreads = 0
    /\ reader_result = None
    /\ read_log = <<>>
    /\ handled = <<>>
    /\ completables = <<>>
    /\ handler_threads = {}
    /\ agent_shutdown = FALSE
    /\ agent_mutex = "free"
    /\ queue = <<>>
    /\ worker_pc = "wait"
    /\ worker_task = 0
    /\ output = <<>>
    /\ failed_writes = {}
    /\ submits = <<>>
    /\ panics = {}
    /\ aborted = FALSE
    /\ endpoint_mutex = "free"
    /\ endpoint_poisoned = FALSE
    /\ app_pc = "idle"
    /\ app_ops = 0
    /\ app_result = None

\* an endpoint with its read loop, output agent and application thread
Init ==
    /\ \E s \in Scenarios :
          /\ inputs = s.inputs
          /\ write_errors = s.write_errors
          /\ app_budget = s.app_budget
    /\ start_with_output_agent
    /\ fn_pc = "none" /\ fn_in = None /\ fn_out = None

\* the record of a call of submit_write_task
Submitted(by, src, rpc_message, accepted) ==
    [by |-> by, src |-> src, rpc_message |-> rpc_message, accepted |-> accepted,
     was_shutdown |-> agent_shutdown]

\* the effect of the write, if any, of an operation of thread by for inbound message src
DoWrite(by, src, write) ==
    LET sub == submit_write_task(queue, agent_shutdown, Len(submits) + 1)
    IN IF write.some
       THEN /\ submits' = Append(submits, Submitted(by, src, write.v, sub.accepted))
            /\ queue' = sub.queue
            /\ agent_mutex' = IF sub.poisons THEN "poisoned" ELSE agent_mutex
       ELSE UNCHANGED <<submits, queue, agent_mutex>>

\* whether a write submitted now makes submit_write_task panic
SubmitPanics == submit_write_task(queue, agent_shutdown, Len(submits) + 1).panicked

\* a panic of a thread; a panic of the drop of a completable during that panic aborts
Panic(who, reason, drop_panic) ==
    /\ panics' = panics \cup {[thread |-> who, reason |-> reason]}
    /\ aborted' = (aborted \/ drop_panic)

(***************************************************************************)
(* run_message_read_loop.                                                  *)
(***************************************************************************)
ReadNext ==
    /\ reader_pc = "read_next"
    /\ nreads < MaxReads
    /\ \E r \in inputs :
          /\ message' = r
          /\ read_log' = IF r.ok THEN Append(read_log, r.v) ELSE read_log
          /\ reader_pc' = IF r.ok THEN "handle_message" ELSE "shutdown"
    /\ nreads' = nreads + 1
    /\ UNCHANGED <<reader_result, handled, completables, handler_threads, agent_shutdown,
                   queue, submits, panics, aborted>>
    /\ UNCHANGED <<workerVars, lockVars, appVars, envVars>>

\* endpoint.lock().unwrap() on a poisoned mutex
ReaderLockPoisoned ==
    /\ reader_pc \in {"handle_message", "shutdown"}
    /\ endpoint_mutex = "free"
    /\ endpoint_poisoned
    /\ reader_pc' = "panicked"
    /\ Panic("reader", "poisoned endpoint mutex", FALSE)
    /\ UNCHANGED <<message, nreads, reader_result, read_log, handled, completables,
                   handler_threads, agent_shutdown, queue, submits>>
    /\ UNCHANGED <<workerVars, lockVars, appVars, envVars>>

\* endpoint.lock().unwrap(); endpoint.handle_message(&message); and the unlock
HandleMessage ==
    /\ reader_pc = "handle_message"
    /\ endpoint_mutex = "free" /\ ~endpoint_poisoned /\ agent_mutex = "free"
    /\ LET req == Len(handled) + 1
           eff == handle_message(req, message.v, SubmitPanics)
           c == Len(completables) + 1
       IN /\ handled' = Append(handled, [message |-> message.v, running |-> ~agent_shutdown])
          /\ completables' = IF eff.completable.some
                             THEN Append(completables, eff.completable.v)
                             ELSE completables
          /\ handler_threads' = IF eff.thread.some
                                THEN handler_threads \cup
                                       {[c |-> c, params |-> eff.thread.v.params,
                                         fn |-> eff.thread.v.fn]}
                                ELSE handler_threads
          /\ DoWrite("reader", req, eff.write)
          /\ IF eff.panicked
             THEN /\ reader_pc' = "panicked"
                  /\ endpoint_poisoned' = TRUE
                  /\ Panic("reader", "Output agent is shutdown or thread panicked!",
                           eff.completable.some /\ eff.completable.v.drop_panic)
             ELSE IF eff.completable.some /\ eff.completable.v.drop_panic
             THEN /\ reader_pc' = "panicked"
                  /\ endpoint_poisoned' = TRUE
                  /\ Panic("reader", "completable dropped unfinished", FALSE)
             ELSE /\ reader_pc' = "read_next"
                  /\ UNCHANGED <<endpoint_poisoned, panics, aborted>>
    /\ UNCHANGED <<message, nreads, reader_result, read_log, agent_shutdown,
                   endpoint_mutex>>
    /\ UNCHANGED <<workerVars, appVars, envVars>>

\* Endpoint::is_shutdown
is_shutdown(was_shutdown) == was_shutdown

\* a variant that signals the shutdown and does not join the worker
shutdown_without_join(was_shutdown) ==
    [agent_shutdown |-> TRUE, joining |-> FALSE]

\* a variant whose second call starts the agent again
shutdown_toggling(was_shutdown) ==
    IF was_shutdown
    THEN [agent_shutdown |-> FALSE, joining |-> FALSE]
    ELSE [agent_shutdown |-> TRUE, joining |-> TRUE]

\* a variant that joins the worker and never signals the shutdown to it
shutdown_joining_without_signal(was_shutdown) ==
    [agent_shutdown |-> was_shutdown, joining |-> TRUE]

\* Endpoint::shutdown: OutputAgent::shutdown_and_join under the mutex of the agent; a
\* no-op when the agent is already shut down, and else the caller joins the worker
shutdown(was_shutdown) ==
    IF was_shutdown
    THEN [agent_shutdown |-> TRUE, joining |-> FALSE]
    ELSE [agent_shutdown |-> TRUE, joining |-> TRUE]

\* a variant of the read loop that returns the error and leaves the endpoint running
ReaderShutdown_returning_at_once ==
    /\ reader_pc = "shutdown"
    /\ endpoint_mutex = "free" /\ ~endpoint_poisoned /\ agent_mutex = "free"
    /\ reader_pc' = "returned"
    /\ reader_result' = Some(Err(message.err))
    /\ UNCHANGED <<message, nreads, read_log, handled, completables, handler_threads,
                   agent_shutdown, queue, submits, panics, aborted>>
    /\ UNCHANGED <<workerVars, lockVars, appVars, envVars>>

\* the read error: endpoint.lock().unwrap(); endpoint.shutdown()
ReaderShutdown ==
    /\ reader_pc = "shutdown"
    /\ endpoint_mutex = "free" /\ ~endpoint_poisoned /\ agent_mutex = "free"
    /\ LET s == shutdown(agent_shutdown)
       IN /\ agent_shutdown' = s.agent_shutdown
          /\ IF s.joining
             THEN /\ reader_pc' = "join"
                  /\ endpoint_mutex' = "reader"
                  /\ agent_mutex' = "reader"
                  /\ UNCHANGED reader_result
             ELSE /\ reader_pc' = "returned"
                  /\ reader_result' = Some(Err(message.err))
                  /\ UNCHANGED <<endpoint_mutex, agent_mutex>>
    /\ UNCHANGED <<message, nreads, read_log, handled, completables, handler_threads,
                   queue, submits, panics, aborted, endpoint_poisoned>>
    /\ UNCHANGED <<workerVars, appVars, envVars>>

\* shutdown_and_join returns when the worker has exited; return Err(error)
ReaderJoin ==
    /\ reader_pc = "join"
    /\ worker_pc = "exited"
    /\ reader_pc' = "returned"
    /\ reader_result' = Some(Err(message.err))
    /\ endpoint_mutex' = "free"
    /\ agent_mutex' = "free"
    /\ UNCHANGED <<message, nreads, read_log, handled, completables, handler_threads,
                   agent_shutdown, queue, submits, panics, aborted, endpoint_poisoned>>
    /\ UNCHANGED <<workerVars, appVars, envVars>>

(***************************************************************************)
(* The threads async_method spawns: completable.sync_handle_request(..).   *)
(***************************************************************************)
HandlerThread ==
    /\ agent_mutex = "free"
    /\ \E t \in handler_threads :
          LET r == sync_handle_request(completables[t.c], t.params, t.fn, SubmitPanics)
              write == on_response(r.response)
          IN /\ handler_threads' = handler_threads \ {t}
             /\ completables' = [completables EXCEPT ![t.c] = r.completable]
             /\ DoWrite("handler", completables[t.c].req, write)
             /\ IF r.panicked
                THEN Panic("handler", "Output agent is shutdown or thread panicked!",
                           r.completable.drop_panic)
                ELSE IF r.completable.drop_panic
                THEN Panic("handler", "completable dropped unfinished", FALSE)
                ELSE UNCHANGED <<panics, aborted>>
    /\ UNCHANGED <<agent_shutdown, endpoint_mutex, endpoint_poisoned>>
    /\ UNCHANGED <<readerVars, workerVars, appVars, envVars>>

(***************************************************************************)
(* The worker of the output agent.                                         *)
(***************************************************************************)
\* takes the next task; write_message writes the header of the message, or fails
WorkerBegin ==
    /\ worker_pc = "wait"
    /\ queue # <<>>
    /\ worker_task' = Head(queue)
    /\ queue' = Tail(queue)
    /\ \/ /\ output' = Append(output, [task |-> Head(queue), part |-> "header"])
          /\ worker_pc' = "write_body"
          /\ UNCHANGED failed_writes
       \/ /\ write_errors
          /\ failed_writes' = failed_writes \cup {Head(queue)}
          /\ UNCHANGED <<output, worker_pc>>
    /\ UNCHANGED <<completables, handler_threads, agent_shutdown, submits, panics, aborted>>
    /\ UNCHANGED <<readerVars, lockVars, appVars, envVars>>

\* write_message writes the body of the message
WorkerFinish ==
    /\ worker_pc = "write_body"
    /\ output' = Append(output, [task |-> worker_task, part |-> "body"])
    /\ worker_pc' = "wait"
    /\ UNCHANGED <<worker_task, failed_writes, queue>>
    /\ UNCHANGED <<completables, handler_threads, agent_shutdown, submits, panics, aborted>>
    /\ UNCHANGED <<readerVars, lockVars, appVars, envVars>>

\* after the shutdown the worker drains the queue, releases the writer and exits
WorkerExit ==
    /\ worker_pc = "wait"
    /\ queue = <<>>
    /\ agent_shutdown
    /\ worker_pc' = "exited"
    /\ UNCHANGED <<worker_task, output, failed_writes, queue>>
    /\ UNCHANGED <<completables, handler_threads, agent_shutdown, submits, panics, aborted>>
    /\ UNCHANGED <<readerVars, lockVars, appVars, envVars>>

(***************************************************************************)
(* The application thread, on the EndpointHandle.                          *)
(***************************************************************************)
AppBegin ==
    /\ app_pc = "idle"
    /\ app_ops < app_budget
    /\ app_ops' = app_ops + 1
    /\ UNCHANGED envVars

\* endpoint.lock()
AppStart ==
    /\ AppBegin
    /\ endpoint_mutex = "free"

\* endpoint.lock().unwrap() on a poisoned mutex
AppLockPoisoned ==
    /\ AppStart
    /\ endpoint_poisoned
    /\ app_pc' = "panicked"
    /\ Panic("app", "poisoned endpoint mutex", FALSE)
    /\ UNCHANGED <<app_result, completables, handler_threads, agent_shutdown, queue, submits>>
    /\ UNCHANGED <<readerVars, workerVars, lockVars>>

AppIsShutdown ==
    /\ AppStart
    /\ ~endpoint_poisoned /\ agent_mutex = "free"
    /\ app_result' = Some([op |-> "is_shutdown", v |-> is_shutdown(agent_shutdown)])
    /\ UNCHANGED <<app_pc, completables, handler_threads, agent_shutdown, queue, submits,
                   panics, aborted>>
    /\ UNCHANGED <<readerVars, workerVars, lockVars>>

AppShutdown ==
    /\ AppStart
    /\ ~endpoint_poisoned /\ agent_mutex = "free"
    /\ LET s == shutdown(agent_shutdown)
       IN /\ agent_shutdown' = s.agent_shutdown
          /\ IF s.joining
             THEN /\ app_pc' = "join"
                  /\ endpoint_mutex' = "app"
                  /\ agent_mutex' = "app"
                  /\ UNCHANGED app_result
             ELSE /\ app_result' = Some([op |-> "shutdown", v |-> FALSE])
                  /\ UNCHANGED <<app_pc, endpoint_mutex, agent_mutex>>
    /\ UNCHANGED <<completables, handler_threads, queue, submits, panics, aborted,
                   endpoint_poisoned>>
    /\ UNCHANGED <<readerVars, workerVars>>

AppJoin ==
    /\ app_pc = "join"
    /\ worker_pc = "exited"
    /\ app_pc' = "idle"
    /\ app_result' = Some([op |-> "shutdown", v |-> TRUE])
    /\ endpoint_mutex' = "free"
    /\ agent_mutex' = "free"
    /\ UNCHANGED <<app_ops, completables, handler_threads, agent_shutdown, queue, submits,
                   panics, aborted, endpoint_poisoned>>
    /\ UNCHANGED <<readerVars, workerVars, envVars>>

\* the effect of a send: the write, and the panic on a rejected submission
AppSend(op, eff) ==
    /\ DoWrite("app", 0, eff.write)
    /\ IF eff.panicked
       THEN /\ app_pc' = "panicked"
            /\ endpoint_poisoned' = TRUE
            /\ Panic("app", "Output agent is shutdown or thread panicked!", FALSE)
            /\ UNCHANGED app_result
       ELSE /\ app_result' = Some([op |-> op, v |-> eff.result.ok])
            /\ UNCHANGED <<app_pc, endpoint_poisoned, panics, aborted>>
    /\ UNCHANGED <<completables, handler_threads, agent_shutdown, endpoint_mutex>>
    /\ UNCHANGED <<readerVars, workerVars>>

AppSendNotification ==
    /\ AppStart
    /\ ~endpoint_poisoned /\ agent_mutex = "free"
    /\ \E params \in SendParams :
          AppSend("send_notification", send_notification("my_method", params, SubmitPanics))

\* ResponseCompletable::new(..) dropped without a complete call
AppDropCompletable ==
    /\ AppBegin
    /\ LET c == drop(ResponseCompletable_new(0, None))
       IN /\ completables' = Append(completables, c)
          /\ IF c.drop_panic
             THEN /\ app_pc' = "panicked"
                  /\ Panic("app", "completable dropped unfinished", FALSE)
             ELSE UNCHANGED <<app_pc, panics, aborted>>
    /\ UNCHANGED <<app_result, handler_threads, agent_shutdown, queue, submits>>
    /\ UNCHANGED <<readerVars, workerVars, lockVars>>

Next ==
    \/ ReadNext
    \/ ReaderLockPoisoned
    \/ HandleMessage
    \/ ReaderShutdown
    \/ ReaderJoin
    \/ HandlerThread
    \/ WorkerBegin
    \/ WorkerFinish
    \/ WorkerExit
    \/ AppLockPoisoned
    \/ AppIsShutdown
    \/ AppShutdown
    \/ AppJoin
    \/ AppSendNotification
    \/ AppDropCompletable

Spec == Init /\ [][Next]_vars

\* the reader can lock the endpoint for handle_message: the condition of HandleMessage,
\* which handles the message whenever it holds
HandleMessageCanRun ==
    /\ reader_pc = "handle_message"
    /\ endpoint_mutex = "free" /\ ~endpoint_poisoned /\ agent_mutex = "free"

\* the scheduling of the threads: a thread that can take a step takes one. The reader
\* gets the mutex it waits for, a spawned handler thread runs, the worker of the output
\* agent writes the tasks of its queue and exits on shutdown, and a join returns when
\* the worker has exited. The application thread is free to call nothing
Scheduling ==
    /\ []<>~HandleMessageCanRun
    /\ WF_vars(ReaderLockPoisoned)
    /\ WF_vars(ReaderShutdown)
    /\ WF_vars(ReaderJoin)
    /\ WF_vars(HandlerThread)
    /\ WF_vars(WorkerBegin)
    /\ WF_vars(WorkerFinish)
    /\ WF_vars(WorkerExit)
    /\ WF_vars(AppJoin)

LiveSpec == Init /\ [][Next]_vars /\ Scheduling
(***************************************************************************)
(* What the claims speak of.                                               *)
(***************************************************************************)
\* the calls of submit_write_task made for inbound message number i
SubmitsFor(i) == {k \in DOMAIN submits : submits[k].src = i}

\* the request of inbound message number i, if it parses
Parsed(i) == parse_jsonrpc_request(handled[i].message)

\* the handler of a request is one of add_request or add_notification, or none
SyncDispatch(request) ==
    request.method \in DOMAIN method_handlers
        => method_handlers[request.method].kind # "add_rpc_handler"

\* the params of a request decode into the parameter type of its registered handler
ParamsDecode(request) ==
    /\ request.method \in DOMAIN method_handlers
    /\ from_value(method_fn_type(method_handlers[request.method].fn),
                  into_value(request.params)).ok

\* the registered handler ran and reported no error
HandledSuccessfully(request) ==
    /\ ParamsDecode(request)
    /\ call_method_fn(method_handlers[request.method].fn,
                      from_value(method_fn_type(method_handlers[request.method].fn),
                                 into_value(request.params)).v).ok

\* the inbound messages the first claims are about: handled on a running endpoint
\* and not dispatched to a handler of add_rpc_handler
SyncHandled ==
    {i \in DOMAIN handled :
        handled[i].running /\ (Parsed(i).ok => SyncDispatch(Parsed(i).v))}

\* C1 as stated: for every message handled on a running endpoint exactly one
\* outbound message is submitted, unless the message is a notification (no id) that
\* was handled successfully, and then none is.
C1_AsStated ==
    \A i \in SyncHandled :
        Cardinality(SubmitsFor(i)) =
            IF Parsed(i).ok /\ ~Parsed(i).v.id.some /\ HandledSuccessfully(Parsed(i).v)
            THEN 0 ELSE 1

\* C1 as amended: for every message handled on a running endpoint exactly one
\* outbound message is submitted, unless the method of the request is registered
\* with add_notification and its params decode (the completable is completed with
\* None), and then none is, whether the message carries an id or not.
C1_OneOutboundUnlessCompletedWithNone ==
    \A i \in SyncHandled :
        Cardinality(SubmitsFor(i)) =
            IF /\ Parsed(i).ok
               /\ ParamsDecode(Parsed(i).v)
               /\ method_handlers[Parsed(i).v.method].kind = "add_notification"
            THEN 0 ELSE 1

\* a notification of an add_notification method got no outbound message, and a
\* notification of an add_request method was handled and got one
C1_Witness ==
    \E i, j \in SyncHandled :
        /\ handled[i].message = MsgExit /\ SubmitsFor(i) = {}
        /\ handled[j].message = MsgNotification /\ Cardinality(SubmitsFor(j)) = 1

\* the id member of inbound message number i, as it was sent
InboundId(i) == handled[i].message.val.o["id"]

\* the id member of a response, as it is written
OutboundId(k) == serialize_JsonRpcMessage(submits[k].rpc_message).o["id"]

\* C2: every response emitted for an inbound request that parses and carries id X
\* carries id X, and a response carries id Null only when the message could not be
\* parsed into a request with a valid id.
C2_ResponseCarriesRequestId ==
    \A k \in DOMAIN submits :
        submits[k].src > 0 =>
            LET i == submits[k].src
            IN /\ (Parsed(i).ok /\ Parsed(i).v.id.some) => OutboundId(k) = InboundId(i)
               /\ OutboundId(k) = Value_Null => ~(Parsed(i).ok /\ Parsed(i).v.id.some)

\* the completables Endpoint::handle_request created
RequestCompletables == {c \in DOMAIN completables : completables[c].req > 0}

\* C3: every ResponseCompletable that handle_request hands to the MapRequestHandler
\* gets exactly one complete call before it is dropped: none while a handler thread
\* still holds it, one once it is dropped, and every parsed message has its own.
C3_ExactlyOneComplete ==
    /\ \A c \in RequestCompletables :
          /\ completables[c].dropped => completables[c].calls = 1
          /\ ~completables[c].dropped =>
                /\ completables[c].calls = 0
                /\ \E t \in handler_threads : t.c = c
    /\ \A i \in DOMAIN handled :
          Parsed(i).ok => Cardinality({c \in RequestCompletables : completables[c].req = i}) = 1

\* a completable completed by a handler thread, and another completed for a method
\* that is not registered
C3_Witness ==
    \E c, d \in RequestCompletables :
        /\ handled[completables[c].req].message = MsgAsync
        /\ completables[c].dropped /\ completables[c].calls = 1
        /\ handled[completables[d].req].message = MsgUnknownMethod
        /\ completables[d].dropped /\ completables[d].calls = 1

\* C4: a ResponseCompletable dropped with no complete call panics at its drop, and a
\* completed one drops silently, also when the write submission of its callback
\* fails (so that no panic occurs during a panic).
C4_DropDetectsUnfinished ==
    /\ \A c \in DOMAIN completables :
          completables[c].dropped =>
              /\ completables[c].calls = 0 =>
                    /\ completables[c].drop_panic
                    /\ \E q \in panics : q.reason = "completable dropped unfinished"
              /\ completables[c].calls > 0 => ~completables[c].drop_panic
    /\ ~aborted

\* a completable was dropped unfinished, and the submission of the response of a
\* completed one was rejected
C4_Witness ==
    /\ \E c \in DOMAIN completables :
          completables[c].dropped /\ completables[c].calls = 0
    /\ \E c \in RequestCompletables :
          /\ completables[c].calls = 1
          /\ \E k \in SubmitsFor(completables[c].req) : ~submits[k].accepted

\* the tasks whose message is written whole
Written == {output[p].task : p \in {q \in DOMAIN output : output[q].part = "body"}}

C6_SubmissionOrder ==
    /\ \A p, q \in DOMAIN output : p < q => output[p].task <= output[q].task
    /\ \A p \in DOMAIN output : \A i \in DOMAIN queue : output[p].task < queue[i]
    /\ \A i, j \in DOMAIN queue : i < j => queue[i] < queue[j]
    /\ \A k \in failed_writes : \A i \in DOMAIN queue : k < queue[i]

\* a message of a handler thread was submitted before one of the application thread,
\* or the other way round, and both are written
C6_Witness ==
    \E k, l \in Written :
        /\ k < l /\ submits[k].by # submits[l].by
        /\ {submits[k].by, submits[l].by} = {"handler", "app"}

RejectedPanic == "Output agent is shutdown or thread panicked!"

\* C7: a write submitted once the endpoint is shut down is rejected, its thread
\* panics, and its message is neither queued nor written.
C7_ShutdownRejects ==
    \A k \in DOMAIN submits :
        submits[k].was_shutdown =>
            /\ ~submits[k].accepted
            /\ [thread |-> submits[k].by, reason |-> RejectedPanic] \in panics
            /\ submits[k].by = "reader" => reader_pc = "panicked"
            /\ submits[k].by = "app" => app_pc = "panicked"
            /\ \A i \in DOMAIN queue : queue[i] # k
            /\ \A p \in DOMAIN output : output[p].task # k
            /\ k \notin failed_writes

\* after a shutdown the reader thread submitted the error response of a malformed
\* message and a handler thread the response of its request
C7_Witness ==
    \E k, l \in DOMAIN submits :
        /\ submits[k].was_shutdown /\ submits[k].by = "reader"
        /\ handled[submits[k].src].message = MsgNotJson
        /\ submits[l].was_shutdown /\ submits[l].by = "handler"

\* a call of Endpoint::shutdown has returned
ShutdownReturned ==
    \/ reader_pc = "returned"
    \/ app_result.some /\ app_result.v.op = "shutdown"

\* C8: when shutdown returns no accepted task is pending, every accepted task was
\* executed (its message written, or its write failed) and the worker has exited.
C8_ShutdownDrains ==
    ShutdownReturned =>
        /\ queue = <<>>
        /\ worker_pc = "exited"
        /\ \A k \in DOMAIN submits :
              submits[k].accepted => k \in Written \cup failed_writes

\* the read loop has returned from shutdown after tasks of two threads were accepted
C8_Witness ==
    /\ reader_pc = "returned"
    /\ \E k, l \in Written : submits[k].by = "handler" /\ submits[l].by = "app"

\* C9: the endpoint never leaves SHUTDOWN, it enters it only in a call of shutdown,
\* is_shutdown reports the state and changes nothing, and a call of shutdown on an
\* endpoint that is shut down returns at once and changes nothing.
C9_ShutdownIsTerminal ==
    [][/\ agent_shutdown => agent_shutdown'
       /\ (~agent_shutdown /\ agent_shutdown') =>
             \/ reader_pc = "shutdown" /\ reader_pc' = "join"
             \/ app_pc = "idle" /\ app_pc' = "join"
       /\ (app_ops' # app_ops /\ app_result'.some /\ app_pc' = "idle"
             /\ app_result'.v.op = "is_shutdown") =>
             /\ app_result'.v.v = agent_shutdown
             /\ UNCHANGED <<agent_shutdown, queue, worker_pc, output, submits, agent_mutex>>
       /\ (agent_shutdown /\ reader_pc = "shutdown" /\ reader_pc' # "shutdown") =>
             /\ reader_pc' \in {"returned", "panicked"}
             /\ UNCHANGED <<agent_shutdown, queue, worker_pc, output, submits, agent_mutex>>
       /\ (agent_shutdown /\ app_ops' # app_ops /\ app_result'.some /\ app_pc' = "idle"
             /\ app_result'.v.op = "shutdown") =>
             UNCHANGED <<agent_shutdown, queue, worker_pc, output, submits, agent_mutex>>
      ]_vars

\* the application has shut the endpoint down and the read loop, calling shutdown a
\* second time, has returned
C9_Witness ==
    /\ agent_shutdown
    /\ app_result = Some([op |-> "shutdown", v |-> TRUE])
    /\ reader_pc = "returned"

\* C10: handle_message gets the messages in the order read_next returned them; the
\* read loop returns only after read_next returned an error, with that error and
\* never Ok, with the endpoint shut down and every message read before handled.
C10_ReadLoop ==
    /\ Len(handled) <= Len(read_log)
    /\ \A i \in DOMAIN handled : handled[i].message = read_log[i]
    /\ Len(read_log) > Len(handled) =>
          /\ Len(read_log) = Len(handled) + 1
          /\ reader_pc \in {"handle_message", "panicked"}
    /\ reader_result.some <=> reader_pc = "returned"
    /\ reader_pc = "returned" =>
          /\ ~message.ok /\ message.err \in ReadErrors
          /\ reader_result = Some(Err(message.err))
          /\ is_shutdown(agent_shutdown)
          /\ Len(handled) = Len(read_log)
          /\ nreads = Len(read_log) + 1

\* the loop handled a message and returned the error of the read after it
C10_Witness ==
    /\ reader_pc = "returned"
    /\ Len(handled) >= 1
    /\ reader_result = Some(Err("Content-Length: not defined or invalid."))

\* a message that is not JSON or not a request, or a request of an unknown method,
\* with params that do not decode, or whose handler returns a service error
BadMessage(m) ==
    LET parsed == parse_jsonrpc_request(m)
    IN ~parsed.ok \/ ~HandledSuccessfully(parsed.v)

\* C11: handling a bad message on a running endpoint neither ends the read loop nor
\* shuts the endpoint down: the loop goes on to its next read, no thread panics and
\* the endpoint is still running.
C11_BadMessageDoesNotEndLoop ==
    [][(/\ Len(handled') = Len(handled) + 1
        /\ ~agent_shutdown
        /\ BadMessage(message.v)) =>
            /\ reader_pc' = "read_next"
            /\ ~agent_shutdown'
            /\ ~reader_result'.some
            /\ ~endpoint_poisoned'
            /\ panics' = panics]_vars

\* after a text that is not JSON the loop read and handled a request whose handler
\* returns a service error, and goes on
C11_Witness ==
    /\ Len(handled) = 2
    /\ handled[1].running /\ handled[1].message = MsgNotJson
    /\ handled[2].running /\ handled[2].message = MsgCompletion
    /\ reader_pc = "read_next" /\ ~agent_shutdown /\ panics = {}

\* the response submitted with number k, when it is an error response
OutboundError(k) == submits[k].rpc_message.response.result_or_error.error

\* C12: a message parse_jsonrpc_request rejects gets exactly one response, an error
\* with id Null, code -32700 when the text is not JSON and -32600 when it is JSON
\* but not a request, and no ResponseCompletable nor handler thread is created.
C12_ParseFailureResponse ==
    \A i \in DOMAIN handled :
        ~Parsed(i).ok =>
            /\ Cardinality(SubmitsFor(i)) = 1
            /\ \A k \in SubmitsFor(i) :
                  /\ submits[k].rpc_message.t = "Response"
                  /\ submits[k].rpc_message.response.id = RpcId_Null
                  /\ OutboundId(k) = Value_Null
                  /\ submits[k].rpc_message.response.result_or_error.t = "Error"
                  /\ OutboundError(k).code =
                        IF handled[i].message.json THEN I64(CodeInvalidRequest)
                        ELSE I64(CodeParseError)
                  /\ submits[k].accepted <=> handled[i].running
            /\ \A c \in DOMAIN completables : completables[c].req # i

\* a text that is not JSON and a request with an id and the wrong version were both
\* answered
C12_Witness ==
    \E i, j \in DOMAIN handled :
        /\ handled[i].message = MsgNotJson /\ SubmitsFor(i) # {}
        /\ handled[j].message = MsgWrongVersion /\ SubmitsFor(j) # {}
        /\ "id" \in DOMAIN handled[j].message.val.o

\* the inbound messages that parse to a request with an id
RequestsWithId == {i \in DOMAIN handled : Parsed(i).ok /\ Parsed(i).v.id.some}

\* C13: a request of a method that is not registered gets exactly one response, an
\* error with the id of the request and code -32601, and no handler runs for it.
C13_MethodNotFound ==
    \A i \in RequestsWithId :
        Parsed(i).v.method \notin DOMAIN method_handlers =>
            /\ Cardinality(SubmitsFor(i)) = 1
            /\ \A k \in SubmitsFor(i) :
                  /\ submits[k].rpc_message.t = "Response"
                  /\ submits[k].rpc_message.response.result_or_error.t = "Error"
                  /\ OutboundError(k) = error_JSON_RPC_MethodNotFound
                  /\ OutboundError(k).code = I64(CodeMethodNotFound)
                  /\ OutboundId(k) = InboundId(i)
            /\ \A t \in handler_threads : completables[t.c].req # i

\* C14: a request whose params do not decode into the parameter type of its
\* handler gets exactly one response, an error with the id of the request and code
\* -32602, and the handler function is not called.
C14_InvalidParams ==
    \A i \in RequestsWithId :
        (/\ Parsed(i).v.method \in DOMAIN method_handlers
         /\ SyncDispatch(Parsed(i).v)
         /\ ~ParamsDecode(Parsed(i).v)) =>
            /\ Cardinality(SubmitsFor(i)) = 1
            /\ \A k \in SubmitsFor(i) :
                  /\ submits[k].rpc_message.t = "Response"
                  /\ submits[k].rpc_message.response.result_or_error.t = "Error"
                  /\ OutboundError(k).code = I64(CodeInvalidParams)
                  /\ OutboundId(k) = InboundId(i)

\* the messages without an id, handled on a running endpoint, that are requests of a
\* method registered with add_request whose handler succeeds on the params
NotifiedRequestMethods ==
    {i \in DOMAIN handled :
        /\ handled[i].running
        /\ Parsed(i).ok /\ ~Parsed(i).v.id.some
        /\ HandledSuccessfully(Parsed(i).v)
        /\ method_handlers[Parsed(i).v.method].kind = "add_request"}

\* C15 as stated: the request message of an add_request method, sent with no id,
\* produces no outbound message.
C15_AsStated ==
    \A i \in NotifiedRequestMethods : SubmitsFor(i) = {}

\* C15 as amended: the request message of an add_request method, sent with no id,
\* produces exactly one outbound message, the error response with id Null and code
\* -32600 for the missing id, and the result of the handler is discarded.
C15_NotifiedRequestMethodGetsError ==
    \A i \in NotifiedRequestMethods :
        /\ Cardinality(SubmitsFor(i)) = 1
        /\ \A k \in SubmitsFor(i) :
              /\ submits[k].accepted
              /\ submits[k].rpc_message =
                    JsonRpcMessage_Response(new_error(RpcId_Null,
                        error_JSON_RPC_InvalidRequest("Property 'id' not provided for request.")))
              /\ OutboundError(k).code = I64(CodeInvalidRequest)

\* my_method was sent without an id, its handler succeeded, and the one response
\* was written to the output
C15_Witness ==
    \E i \in NotifiedRequestMethods :
        /\ handled[i].message = MsgNotification
        /\ \E k \in SubmitsFor(i) : k \in Written

(***************************************************************************)
(* The transport framer.  A byte stream is a sequence of characters, each  *)
(* of one byte but the two-byte character below; InvalidByte is the second *)
(* byte of a two-byte character whose first byte was consumed.             *)
(***************************************************************************)
TwoByteChar == "e-acute"
InvalidByte == "0x80"
CR == "\r"
LF == "\n"

ByteLen(c) == IF c = TwoByteChar THEN 2 ELSE 1

RECURSIVE Bytes(_)
Bytes(chars) == IF chars = <<>> THEN 0 ELSE ByteLen(Head(chars)) + Bytes(Tail(chars))

CONTENT_LENGTH == <<"C", "o", "n", "t", "e", "n", "t", "-", "L", "e", "n", "g", "t", "h", ":">>

\* BufRead::read_line: the line up to and with the next LF, or up to the end of the
\* stream (the empty line at its end); an error on bytes that are not UTF-8
read_line(reader) ==
    LET ends == {i \in DOMAIN reader : reader[i] = LF}
        last == IF ends = {} THEN Len(reader)
                ELSE CHOOSE i \in ends : \A j \in ends : i <= j
        line == SubSeq(reader, 1, last)
    IN IF \E i \in DOMAIN line : line[i] = InvalidByte
       THEN [line |-> Err("stream did not contain valid UTF-8"),
             reader |-> SubSeq(reader, last + 1, Len(reader))]
       ELSE [line |-> Ok(line), reader |-> SubSeq(reader, last + 1, Len(reader))]

\* str::starts_with
starts_with(line, prefix) ==
    Len(line) >= Len(prefix) /\ SubSeq(line, 1, Len(prefix)) = prefix

\* str::trim
RECURSIVE trim(_)
trim(str) ==
    IF str = <<>> THEN str
    ELSE IF Head(str) \in {" ", CR, LF, "\t"} THEN trim(Tail(str))
    ELSE IF str[Len(str)] \in {" ", CR, LF, "\t"}
    THEN trim(SubSeq(str, 1, Len(str) - 1))
    ELSE str

Digit(c) ==
    CASE c = "0" -> 0 [] c = "1" -> 1 [] c = "2" -> 2 [] c = "3" -> 3 [] c = "4" -> 4
      [] c = "5" -> 5 [] c = "6" -> 6 [] c = "7" -> 7 [] c = "8" -> 8 [] c = "9" -> 9
      [] OTHER -> -1

RECURSIVE DigitsValue(_)
DigitsValue(str) ==
    IF str = <<>> THEN 0
    ELSE DigitsValue(SubSeq(str, 1, Len(str) - 1)) * 10 + Digit(str[Len(str)])

\* str::parse::<u32> (of the short texts of the model: no overflow)
parse_u32(str) ==
    LET digits == IF str # <<>> /\ Head(str) = "+" THEN Tail(str) ELSE str
    IN IF digits = <<>> THEN Err("cannot parse integer from empty string")
       ELSE IF \E i \in DOMAIN digits : Digit(digits[i]) < 0
       THEN Err("invalid digit found in string")
       ELSE Ok(DigitsValue(digits))

\* a loop that takes every line that is not a Content-Length line for the end of the
\* headers
RECURSIVE read_headers_ending_at_any_line(_, _)
read_headers_ending_at_any_line(reader, content_length) ==
    LET r == read_line(reader)
    IN IF ~r.line.ok
       THEN [result |-> r.line, hangs |-> FALSE, reader |-> r.reader]
       ELSE IF starts_with(r.line.v, CONTENT_LENGTH)
       THEN LET int_result ==
                    parse_u32(trim(SubSeq(r.line.v, Len(CONTENT_LENGTH) + 1, Len(r.line.v))))
            IN IF int_result.ok
               THEN IF r.reader = <<>>
                    THEN [result |-> Ok(int_result.v), hangs |-> TRUE, reader |-> <<>>]
                    ELSE read_headers_ending_at_any_line(r.reader, int_result.v)
               ELSE [result |-> int_result, hangs |-> FALSE, reader |-> r.reader]
       ELSE [result |-> Ok(content_length), hangs |-> FALSE, reader |-> r.reader]

\* the loop of parse_transport_message over the header lines: the content length and
\* the reader after the empty line, or the error of a line, or (hangs) no return:
\* at the end of the stream read_line gives the empty line again and again
RECURSIVE read_headers(_, _)
read_headers(reader, content_length) ==
    LET r == read_line(reader)
    IN IF ~r.line.ok
       THEN [result |-> r.line, hangs |-> FALSE, reader |-> r.reader]
       ELSE IF starts_with(r.line.v, CONTENT_LENGTH)
       THEN LET int_result ==
                    parse_u32(trim(SubSeq(r.line.v, Len(CONTENT_LENGTH) + 1, Len(r.line.v))))
            IN IF int_result.ok
               THEN IF r.reader = <<>>
                    THEN [result |-> Ok(int_result.v), hangs |-> TRUE, reader |-> <<>>]
                    ELSE read_headers(r.reader, int_result.v)
               ELSE [result |-> int_result, hangs |-> FALSE, reader |-> r.reader]
       ELSE IF r.line.v = <<CR, LF>>
       THEN [result |-> Ok(content_length), hangs |-> FALSE, reader |-> r.reader]
       ELSE IF r.reader = <<>>
       THEN [result |-> Ok(content_length), hangs |-> TRUE, reader |-> <<>>]
       ELSE read_headers(r.reader, content_length)

\* reader.take(limit): the bytes up to the limit or the end of the stream, and the
\* reader after them; the limit may fall inside a character, whose first bytes are
\* then taken and whose last bytes stay in the stream
RECURSIVE take(_, _)
take(reader, limit) ==
    IF reader = <<>> \/ limit = 0
    THEN [taken |-> <<>>, reader |-> reader]
    ELSE IF ByteLen(Head(reader)) > limit
    THEN [taken |-> <<InvalidByte>>, reader |-> <<InvalidByte>> \o Tail(reader)]
    ELSE LET rest == take(Tail(reader), limit - ByteLen(Head(reader)))
         IN [taken |-> <<Head(reader)>> \o rest.taken, reader |-> rest.reader]

\* a read that counts the characters, not the bytes
read_to_string_counting_chars(reader, limit) ==
    LET n == IF limit < Len(reader) THEN limit ELSE Len(reader)
        taken == SubSeq(reader, 1, n)
    IN [message |-> IF \E i \in 1..n : taken[i] = InvalidByte
                    THEN Err("stream did not contain valid UTF-8")
                    ELSE Ok(taken),
        reader |-> SubSeq(reader, n + 1, Len(reader))]

\* reader.take(limit).read_to_string: all the bytes up to the limit or the end of the
\* stream are read, and they are returned as text; an error when they are not UTF-8
read_to_string(reader, limit) ==
    LET read == take(reader, limit)
    IN [message |-> IF \E i \in 1..Len(read.taken) : read.taken[i] = InvalidByte
                    THEN Err("stream did not contain valid UTF-8")
                    ELSE Ok(read.taken),
        reader |-> read.reader]

\* a framer that reads a payload of no bytes when no length is given
parse_transport_message_without_length_test(reader) ==
    LET headers == read_headers(reader, 0)
    IN IF headers.hangs \/ ~headers.result.ok
       THEN headers
       ELSE LET read == read_to_string(headers.reader, headers.result.v)
            IN [result |-> read.message, hangs |-> FALSE, reader |-> read.reader]

\* parse_transport_message: what it returns, whether it never returns, and the reader
\* after it
parse_transport_message(reader) ==
    LET headers == read_headers(reader, 0)
    IN IF headers.hangs \/ ~headers.result.ok
       THEN headers
       ELSE IF headers.result.v = 0
       THEN [result |-> Err("Content-Length: not defined or invalid."), hangs |-> FALSE,
             reader |-> headers.reader]
       ELSE LET read == read_to_string(headers.reader, headers.result.v)
            IN [result |-> read.message, hangs |-> FALSE, reader |-> read.reader]

(***************************************************************************)
(* The older dispatcher of lib/melnorme_json_rpc (json_rpc.rs): a map from *)
(* method names to closures that write the response themselves.            *)
(***************************************************************************)
\* the older JsonRpcError { code, message, data }, made by JsonRpcError::new
json_rpc_error_JSON_RPC_MethodNotFound ==
    [code |-> I64(CodeMethodNotFound),
     message |-> "The method does not exist / is not available.", data |-> None]
json_rpc_error_JSON_RPC_InvalidParams ==
    [code |-> I64(CodeInvalidParams), message |-> "Invalid method parameter(s).",
     data |-> None]

\* the Serialize of the older JsonRpcResponse: the id is not written, and of an error
\* only the jsonrpc member
json_rpc_serialize_JsonRpcResponse(response) ==
    IF response.result_or_error.t = "Result"
    THEN Value_Object([jsonrpc |-> Value_String("2.0"),
                       result |-> response.result_or_error.value])
    ELSE Value_Object([jsonrpc |-> Value_String("2.0")])

\* JsonRpcDispatcher::handle_request2: the JsonRpcResult_Or_Error of the call
json_rpc_handle_request2(params_map, method_fn) ==
    LET params_result == from_value(method_fn_type(method_fn), Value_Object(params_map))
    IN IF ~params_result.ok
       THEN ResponseResult_Error(json_rpc_error_JSON_RPC_InvalidParams)
       ELSE LET result == call_method_fn(method_fn, params_result.v)
            IN IF result.ok THEN ResponseResult_Result(result.v)
               ELSE ResponseResult_Error([code |-> u32_as_i64(result.err.code),
                                          message |-> result.err.message,
                                          data |-> Some(result.err.data)])

\* JsonRpcDispatcher::handle_request: the writer after the response is written to it
json_rpc_handle_request(writer, params_map, method_fn) ==
    LET result_or_error == json_rpc_handle_request2(params_map, method_fn)
        json_response == JsonRpcResponse(Some(RpcId_Number(U64(1))), result_or_error)
    IN Append(writer, json_rpc_serialize_JsonRpcResponse(json_response))

\* JsonRpcDispatcher::dispatch.  The closure add_request puts into dispatcher_map calls
\* handle_request and returns nothing; the one of add_notification unwraps the decoded
\* params and writes nothing.
dispatch(dispatcher_map, self_output, request) ==
    IF request.method \notin DOMAIN dispatcher_map
    THEN [result |-> Err(json_rpc_error_JSON_RPC_MethodNotFound), output |-> self_output,
          panicked |-> FALSE]
    ELSE LET dispatcher_fn == dispatcher_map[request.method]
         IN IF dispatcher_fn.kind = "add_request"
            THEN [result |-> Ok("()"),
                  output |-> json_rpc_handle_request(self_output, request.params,
                                                     dispatcher_fn.fn),
                  panicked |-> FALSE]
            ELSE LET params == from_value(method_fn_type(dispatcher_fn.fn),
                                          Value_Object(request.params))
                 IN [result |-> Ok("()"), output |-> self_output,
                     panicked |-> ~params.ok]

\* JsonRpcDispatcher::new and the add_request and add_notification calls after it:
\* the dispatcher_map they leave
dispatcher_map_after(registrations) ==
    [name \in {r.name : r \in registrations} |->
        LET r == CHOOSE r \in registrations : r.name = name
        IN [kind |-> r.kind, fn |-> r.fn]]

(***************************************************************************)
(* Single calls of the functions of the library: the arguments are drawn   *)
(* from the sets below and one step applies the function.                  *)
(***************************************************************************)
\* the ids of a ResponseCompletable
CompletableIds ==
    {None, Some(RpcId_Number(U64(1))), Some(RpcId_Number(as_u64(-1))),
     Some(RpcId_String("a")), Some(RpcId_String("")), Some(RpcId_Null)}

\* the arguments of complete
RpcResults ==
    {None,
     Some(ResponseResult_Result(Value_String("1020"))),
     Some(ResponseResult_Result(Value_Null)),
     Some(ResponseResult_Error(error_JSON_RPC_MethodNotFound)),
     Some(ResponseResult_Error(error_JSON_RPC_InvalidParams("missing field \"x\""))),
     Some(ResponseResult_Error(service_error_to_rpc_error(error_not_available)))}

\* ResponseCompletable::new(id, on_response).complete(rpc_result), where on_response
\* is the callback of handle_request, on an agent that accepts or rejects its write
CompleteCalls ==
    [fn : {"complete"}, id : CompletableIds, rpc_result : RpcResults,
     callback_panics : BOOLEAN]

\* the params of a request, with the values serde_json builds
SampleParams ==
    {RequestParams_Object(JsonObject_new),
     RequestParams_Object([param |-> Value_String("2.0"), foo |-> Value_U64(U64(123))]),
     RequestParams_Object([x |-> Value_I64(-5), y |-> Value_Array(<<Value_Null>>)]),
     RequestParams_Array(<<>>),
     RequestParams_Array(<<Value_String("blah"), Value_String("blah")>>),
     RequestParams_None}

\* parse_jsonrpc_request(&to_json(&request))
ParseSerializedCalls ==
    {[fn |-> "parse_serialized", request |-> JsonRpcRequest(id, method, params)] :
        id \in CompletableIds, method \in {"myMethod", ""}, params \in SampleParams}

sample_json_obj(foo) == Value_Object([foo |-> Value_U64(U64(foo))])

SampleResponseResults ==
    {ResponseResult_Result(sample_json_obj(100)),
     ResponseResult_Result(Value_Null),
     ResponseResult_Result(Value_String("1020")),
     ResponseResult_Error(RpcError(I64(5), "msg", Some(sample_json_obj(300)))),
     ResponseResult_Error(RpcError(I64(5), "msg", Some(Value_Null))),
     ResponseResult_Error(RpcError(I64(-5), "", None)),
     ResponseResult_Error(error_JSON_RPC_MethodNotFound)}

\* serde_json::from_str(&to_json(&response))
SerializeResponseCalls ==
    {[fn |-> "serialize_response", response |-> JsonRpcResponse(id, result_or_error)] :
        id \in {RpcId_Null, RpcId_Number(U64(123)), RpcId_Number(as_u64(-1)),
                 RpcId_String("321")},
        result_or_error \in SampleResponseResults}

\* the header lines that are not Content-Length: Blaah-Blah, a line that ends with LF
\* alone, and Content-Length without its colon
OtherHeaders ==
    {<<"B", "l", "a", "a", "h", CR, LF>>,
     <<"B", LF>>,
     <<"C", "o", "n", "t", "e", "n", "t", "-", "L", "e", "n", "g", "t", "h", " ", "9", CR, LF>>}

\* the payloads: their bytes are characters of one byte and of two, and a byte that
\* is no UTF-8
Payloads ==
    UNION {[1..n -> {"a", CR, LF, "NUL", TwoByteChar, InvalidByte}] : n \in 1..MaxPayload}

\* the Content-Length lines for the value n
LengthLines(n) ==
    {CONTENT_LENGTH \o before \o zero \o <<ToString(n)>> \o after \o <<CR, LF>> :
        before \in {<<>>, <<" ">>}, zero \in {<<>>, <<"0">>}, after \in {<<>>, <<" ">>}}

\* a second message
NextMessage == CONTENT_LENGTH \o <<" ", "1", CR, LF, CR, LF, "z">>

\* parse_transport_message on a reader of a stream made of header lines with one
\* Content-Length line, the empty line, a payload of that many bytes and what follows
FramerCalls ==
    {[fn |-> "parse_transport_message", form |-> "whole", before |-> before,
      length_line |-> length_line, after |-> after, payload |-> payload,
      trailing |-> trailing] :
        before \in {<<>>} \cup OtherHeaders,
        length_line \in UNION {LengthLines(Bytes(payload)) : payload \in Payloads},
        after \in {<<>>, <<"B", "l", "a", "a", "h", CR, LF>>},
        payload \in Payloads,
        trailing \in {<<>>, <<"a", "b", "c", "d", "e", "f">>, NextMessage}}

\* the stream of a whole message and what follows it
WholeStream(call) ==
    call.before \o call.length_line \o call.after \o <<CR, LF>> \o call.payload
        \o call.trailing

\* parse_transport_message on a reader of a stream that ends early: the first kept
\* bytes of a message (with and without another header line before and after the
\* Content-Length line), which end in the header lines, at the empty line or in the
\* payload
CutCalls ==
    UNION {{[fn |-> "parse_transport_message", form |-> "cut", whole |-> whole,
             kept |-> kept] : kept \in 0..(Len(WholeStream(whole)) - 1)} :
           whole \in
              {[fn |-> "parse_transport_message", form |-> "whole", before |-> before,
                length_line |-> CONTENT_LENGTH \o <<" ", ToString(Bytes(payload)), CR, LF>>,
                after |-> after, payload |-> payload, trailing |-> <<>>] :
                  before \in {<<>>, <<"B", "l", "a", "a", "h", CR, LF>>},
                  after \in {<<>>, <<"B", "l", "a", "a", "h", CR, LF>>},
                  payload \in Payloads}}

\* parse_transport_message on a reader of a stream whose header lines have no
\* Content-Length line, or one of value 0
NoLengthCalls ==
    {[fn |-> "parse_transport_message", form |-> "no length", before |-> before,
      length_line |-> length_line, after |-> after, payload |-> payload,
      trailing |-> trailing] :
        before \in {<<>>} \cup OtherHeaders,
        length_line \in {<<>>} \cup LengthLines(0),
        after \in {<<>>, <<"B", "l", "a", "a", "h", CR, LF>>},
        payload \in Payloads,
        trailing \in {<<>>, NextMessage}}

\* the stream of a call
Stream(call) ==
    IF call.form = "cut"
    THEN SubSeq(WholeStream(call.whole), 1, call.kept)
    ELSE WholeStream(call)

\* rpc.send_notification(method, params) and rpc.do_send_request(id, method, params),
\* on a running endpoint and after rpc.shutdown(); the params are the sample params,
\* the unit value, a sequence, and scalars; send_notification passes the id None
SendCalls ==
    UNION {{[fn |-> fn, after_shutdown |-> after_shutdown, id |-> id, method |-> method,
             params |-> params] :
                after_shutdown \in BOOLEAN,
                id \in IF fn = "send_notification" THEN {None}
                       ELSE {None, Some(RpcId_Number(U64(9))), Some(RpcId_String("a"))},
                method \in {"my_method", "async_method", "other"},
                params \in SendParams \cup
                    {Value_Object([x |-> Value_U64(U64(123)), y |-> Value_U64(U64(66))]),
                     Value_Null, Value_Array(<<Value_U64(U64(1))>>), Value_String("s"),
                     Value_Bool(TRUE)}} :
           fn \in {"send_notification", "do_send_request"}}

\* the conversion of a ServiceError a handler returns, with codes over the range of
\* u32 (0, 2^31 - 1, 2^31, 2^32 - 32700, 2^32 - 1 among them) and data that is the
\* unit value, a string or an object
ServiceErrorCalls ==
    {[fn |-> "service_error",
      error |-> [code |-> <<high, low>>, message |-> text, data |-> data]] :
        high \in {0, 1, Limb \div 2 - 1, Limb \div 2, Limb - 1},
        low \in {0, 1, Limb + CodeParseError, Limb - 1},
        text \in {"Functionality not implemented.", ""},
        data \in {Value_Null, Value_String("d"), Value_Object([d |-> Value_Null])}}

\* parse_jsonrpc_request on the text of an object whose members jsonrpc, id, method and
\* params are absent or JSON values of any kind, on the text of an array that holds such
\* an object, and on the text of such an object that is cut before its end
ParseRequestCalls ==
    {[fn |-> "parse_jsonrpc_request", root |-> root, jsonrpc |-> jsonrpc, id |-> id,
      method |-> method, params |-> params] :
        root \in {"object", "array", "cut"},
        jsonrpc \in {None, Some(Value_String("2.0")), Some(Value_String("1.0")),
                     Some(Value_U64(U64(2)))},
        method \in {None, Some(Value_String("xxx")), Some(Value_Null)},
        id \in {None} \cup
              {Some(v) : v \in {Value_Null, Value_U64(U64(123)), Value_I64(-1),
                                Value_String("a"), Value_String(""), Value_Bool(TRUE),
                                Value_F64("1.5"), Value_Array(<<Value_U64(U64(1))>>),
                                Value_Object(JsonObject_new)}},
        params \in {None} \cup
              {Some(v) : v \in {Value_Null, Value_Object(JsonObject_new),
                                Value_Object([param |-> Value_String("2.0"),
                                              foo |-> Value_U64(U64(123))]),
                                Value_Array(<<>>), Value_Array(<<Value_U64(U64(1))>>),
                                Value_U64(U64(0)), Value_I64(-1), Value_String("s"),
                                Value_String(""), Value_Bool(FALSE), Value_F64("1.5")}}}

\* the text of the message of such a call
RequestText(call) ==
    LET given == [jsonrpc |-> call.jsonrpc, id |-> call.id, method |-> call.method,
                  params |-> call.params]
        object == Value_Object([k \in {key \in DOMAIN given : given[key].some} |->
                                   given[k].v])
    IN CASE call.root = "object" -> JsonText(object)
         [] call.root = "array" -> JsonText(Value_Array(<<object>>))
         [] call.root = "cut" -> NotJson("EOF while parsing an object")

\* a request of my_method with an integer id is handled by the endpoint and the
\* response is read back as JSON.  The ids are integers over the range of u64 (0, 1,
\* 2^16, 2^31 - 1, 2^31, 2^32, 2^63 - 1, 2^63, 2^64 - 1 among them) and negative
\* integers (-1, -2, -2^16 and its neighbours, -2^31 + 1), which serde_json reads as I64
RequestIdCalls ==
    {[fn |-> "request_id", id |-> id] :
        id \in {Value_U64(u) : u \in {U64(0), U64(1), U64(123), <<0, 0, 1, 0>>,
                                      <<0, 0, Limb \div 2 - 1, Limb - 1>>,
                                      <<0, 0, Limb \div 2, 0>>, <<0, 1, 0, 0>>,
                                      <<Limb \div 2 - 1, Limb - 1, Limb - 1, Limb - 1>>,
                                      <<Limb \div 2, 0, 0, 0>>,
                                      <<Limb - 1, Limb - 1, Limb - 1, Limb - 1>>}}
             \cup {Value_I64(n) : n \in {-1, -2, 1 - Limb, -Limb, -Limb - 1,
                                         -((Limb \div 2 - 1) * Limb + (Limb - 1))}}}

\* dispatch on a dispatcher with no handler or with one handler, registered with
\* add_request or add_notification for a parameter type that is a sequence, a struct or
\* the unit; the request names that method or another and has an empty params map, the
\* map of a Point, or a map with a field of the wrong type
DispatchCalls ==
    {[fn |-> "dispatch", registrations |-> registrations, method |-> method,
      params_map |-> params_map] :
        registrations \in {{}} \cup
            {{[name |-> "my_method", kind |-> kind, fn |-> fn]} :
                kind \in {"add_request", "add_notification"},
                fn \in {"handler", "sample_fn", "completion", "exit"}},
        method \in {"my_method", "other"},
        params_map \in {JsonObject_new, PointParams.o,
                        [x |-> Value_String("s"), y |-> Value_U64(U64(1))],
                        [textDocument |-> Value_Null, position |-> Value_Null]}}

endpointVars ==
    <<inputs, write_errors, app_budget, readerVars, appVars, workerVars, lockVars,
      completables, handler_threads, agent_shutdown, queue, submits, panics, aborted>>

FnInit ==
    /\ inputs = {} /\ write_errors = FALSE
    /\ start_with_output_agent
    /\ fn_pc = "call"
    /\ \/ fn_in \in CompleteCalls /\ fn_out = None
       \/ fn_in \in ParseSerializedCalls /\ fn_out = None
       \/ fn_in \in SerializeResponseCalls /\ fn_out = None
       \/ fn_in \in SendCalls /\ fn_out = None
       \/ fn_in \in ServiceErrorCalls /\ fn_out = None
       \/ fn_in \in ParseRequestCalls /\ fn_out = None
       \/ fn_in \in DispatchCalls /\ fn_out = None
       \/ fn_in \in RequestIdCalls /\ fn_out = None
       \/ /\ fn_in \in FramerCalls
          /\ fn_in.length_line \in LengthLines(Bytes(fn_in.payload))
          /\ fn_out = [reader |-> Stream(fn_in), results |-> <<>>]
       \/ /\ fn_in \in CutCalls
          /\ fn_out = [reader |-> Stream(fn_in), results |-> <<>>]
       \/ /\ fn_in \in NoLengthCalls
          /\ fn_out = [reader |-> Stream(fn_in), results |-> <<>>]
    /\ app_budget = IF fn_in.fn \in {"send_notification", "do_send_request"}
                       /\ fn_in.after_shutdown
                    THEN 1 ELSE 0

CallComplete ==
    /\ fn_pc = "call" /\ fn_in.fn = "complete"
    /\ LET done == complete(ResponseCompletable_new(0, fn_in.id), fn_in.rpc_result,
                            fn_in.callback_panics)
       IN fn_out' = [completable |-> done.completable,
                     response |-> done.response,
                     write |-> on_response(done.response),
                     panicked |-> done.panicked]
    /\ fn_pc' = "returned"
    /\ UNCHANGED <<fn_in, endpointVars>>

CallParseSerialized ==
    /\ fn_pc = "call" /\ fn_in.fn = "parse_serialized"
    /\ fn_out' = parse_jsonrpc_request(to_string(JsonRpcMessage_Request(fn_in.request)))
    /\ fn_pc' = "returned"
    /\ UNCHANGED <<fn_in, endpointVars>>

CallSerializeResponse ==
    /\ fn_pc = "call" /\ fn_in.fn = "serialize_response"
    /\ fn_out' = from_str(to_string(JsonRpcMessage_Response(fn_in.response)))
    /\ fn_pc' = "returned"
    /\ UNCHANGED <<fn_in, endpointVars>>

\* a call of parse_transport_message on the reader, and the next call on the same
\* reader; a call that never returns leaves the caller in the call
CallParseTransportMessage ==
    /\ fn_pc \in {"call", "returned"} /\ fn_in.fn = "parse_transport_message"
    /\ Len(fn_out.results) < 2
    /\ LET r == parse_transport_message(fn_out.reader)
       IN /\ fn_out' = [reader |-> r.reader,
                        results |-> IF r.hangs THEN fn_out.results
                                    ELSE Append(fn_out.results, r.result)]
          /\ fn_pc' = IF r.hangs THEN "hangs" ELSE "returned"
    /\ UNCHANGED <<fn_in, endpointVars>>

\* the send, once rpc.shutdown() has returned if the call is one after the shutdown
CallSend ==
    /\ fn_pc = "call" /\ fn_in.fn \in {"send_notification", "do_send_request"}
    /\ app_pc = "idle"
    /\ fn_in.after_shutdown => app_result = Some([op |-> "shutdown", v |-> TRUE])
    /\ LET sent == IF fn_in.fn = "send_notification"
                   THEN send_notification(fn_in.method, fn_in.params, SubmitPanics)
                   ELSE do_send_request(fn_in.id, fn_in.method, fn_in.params, SubmitPanics)
       IN /\ DoWrite("app", 0, sent.write)
          /\ fn_out' = [result |-> sent.result, panicked |-> sent.panicked]
    /\ fn_pc' = "returned"
    /\ UNCHANGED <<fn_in, inputs, write_errors, app_budget, readerVars, appVars, workerVars,
                   endpoint_mutex, endpoint_poisoned, completables, handler_threads,
                   agent_shutdown, panics, aborted>>

\* a handler returns Err(error): invoke_method_with_fn and from_service_result
\* convert it, and the response with the error is written and read back as JSON
CallServiceError ==
    /\ fn_pc = "call" /\ fn_in.fn = "service_error"
    /\ LET rpc_error == service_error_to_rpc_error(fn_in.error)
           response == new_error(RpcId_Number(U64(1)), rpc_error)
       IN fn_out' = [rpc_error |-> rpc_error,
                     from_service_result |-> from_service_result(Err(fn_in.error)),
                     text |-> from_str(to_string(JsonRpcMessage_Response(response)))]
    /\ fn_pc' = "returned"
    /\ UNCHANGED <<fn_in, endpointVars>>

CallParseRequest ==
    /\ fn_pc = "call" /\ fn_in.fn = "parse_jsonrpc_request"
    /\ fn_out' = parse_jsonrpc_request(RequestText(fn_in))
    /\ fn_pc' = "returned"
    /\ UNCHANGED <<fn_in, endpointVars>>

\* rpc.dispatch(request) on a dispatcher with an empty output
CallDispatch ==
    /\ fn_pc = "call" /\ fn_in.fn = "dispatch"
    /\ fn_out' = dispatch(dispatcher_map_after(fn_in.registrations), <<>>,
                          [id |-> Some(RpcId_Number(U64(1))), method |-> fn_in.method,
                           params |-> fn_in.params_map])
    /\ fn_pc' = "returned"
    /\ UNCHANGED <<fn_in, endpointVars>>

\* endpoint.handle_message of the request, on a running endpoint
CallRequestId ==
    /\ fn_pc = "call" /\ fn_in.fn = "request_id"
    /\ LET text == Request(fn_in.id, "my_method", PointParams)
           eff == handle_message(0, text, SubmitPanics)
       IN /\ DoWrite("reader", 0, eff.write)
          /\ fn_out' = [request |-> parse_jsonrpc_request(text),
                        response |-> IF eff.write.some THEN Some(from_str(to_string(eff.write.v)))
                                     ELSE None]
    /\ fn_pc' = "returned"
    /\ UNCHANGED <<fn_in, inputs, write_errors, app_budget, readerVars, appVars, workerVars,
                   endpoint_mutex, endpoint_poisoned, completables, handler_threads,
                   agent_shutdown, panics, aborted>>

FnNext ==
    \/ CallRequestId
    \/ CallDispatch
    \/ CallParseRequest
    \/ CallServiceError
    \/ CallSend
    \/ AppShutdown
    \/ WorkerExit
    \/ AppJoin
    \/ CallParseTransportMessage
    \/ CallComplete
    \/ CallParseSerialized
    \/ CallSerializeResponse

FnSpec == FnInit /\ [][FnNext]_vars

\* the calls of complete that have returned or panicked
Completed == fn_pc = "returned" /\ fn_in.fn = "complete"

\* C16: complete(None) passes None to the callback, once, and the callback submits
\* no write, whatever the id of the completable is; so the call cannot panic either.
C16_CompleteNoneWritesNothing ==
    (Completed /\ ~fn_in.rpc_result.some) =>
        /\ fn_out.response = None
        /\ fn_out.write = None
        /\ ~fn_out.panicked
        /\ fn_out.completable.calls = 1
        /\ fn_out.completable.completion_flag /\ ~fn_out.completable.drop_panic

\* complete(None) has returned for a completable with a numeric id, on an agent that
\* would have rejected a write
C16_Witness ==
    /\ Completed /\ ~fn_in.rpc_result.some
    /\ fn_in.id = Some(RpcId_Number(U64(1)))
    /\ fn_in.callback_panics

\* C17: complete(Some(r)) on a completable without id discards r and passes to the
\* callback one error response with id Null and code -32600 ("Property 'id' not
\* provided for request."); with id Some(id) it passes the response {id, r}.
C17_CompleteSome ==
    (Completed /\ fn_in.rpc_result.some) =>
        /\ fn_out.completable.calls = 1
        /\ fn_out.response.some
        /\ fn_out.write = Some(JsonRpcMessage_Response(fn_out.response.v))
        /\ IF fn_in.id.some
           THEN /\ fn_out.response.v.id = fn_in.id.v
                /\ fn_out.response.v.result_or_error = fn_in.rpc_result.v
           ELSE /\ fn_out.response.v.id = RpcId_Null
                /\ fn_out.response.v.result_or_error.t = "Error"
                /\ fn_out.response.v.result_or_error.error =
                      RpcError(I64(CodeInvalidRequest),
                               "The JSON sent is not a valid Request object: "
                                  \o "Property 'id' not provided for request.",
                               None)

\* a result was completed on a completable without id
C17_Witness ==
    /\ Completed
    /\ fn_in.rpc_result = Some(ResponseResult_Result(Value_String("1020")))
    /\ fn_in.id = None

\* the round trips of a request that have returned
ParsedSerialized == fn_pc = "returned" /\ fn_in.fn = "parse_serialized"

\* C18 as stated: a request serialized and parsed again is the same request, with
\* any id (absent, Number, String or Null) and any params (Object, Array or None).
C18_AsStated ==
    ParsedSerialized => fn_out = Ok(fn_in.request)

\* C18 as amended: a request serialized and parsed again is the same request when
\* its id is absent, a Number or a String; a request with id Null comes back with
\* no id, and is the same otherwise.
C18_RoundTripButNullId ==
    ParsedSerialized =>
        fn_out = Ok(JsonRpcRequest(IF fn_in.request.id = Some(RpcId_Null) THEN None
                                   ELSE fn_in.request.id,
                                   fn_in.request.method, fn_in.request.params))

\* a request with the id 2^64 - 1 and no params made the round trip
C18_Witness ==
    /\ ParsedSerialized
    /\ fn_in.request.id = Some(RpcId_Number(as_u64(-1)))
    /\ fn_in.request.params = RequestParams_None
    /\ fn_out.ok

\* the responses that were serialized and read back as JSON
SerializedResponse == fn_pc = "returned" /\ fn_in.fn = "serialize_response"

\* C19: a serialized response is an object with jsonrpc "2.0", the id of the response
\* (null for Null), and exactly one of result and error; an error has code and
\* message, and data exactly when the error has data.
C19_ResponseShape ==
    SerializedResponse =>
        /\ fn_out.ok /\ fn_out.v.t = "Object"
        /\ LET o == fn_out.v.o
               s == fn_in.response
           IN /\ {"jsonrpc", "id"} \subseteq DOMAIN o
              /\ o["jsonrpc"] = Value_String("2.0")
              /\ o["id"] = CASE s.id.t = "Null" -> Value_Null
                             [] s.id.t = "Number" -> Value_U64(s.id.n)
                             [] s.id.t = "String" -> Value_String(s.id.s)
              /\ DOMAIN o \in {{"jsonrpc", "id", "result"}, {"jsonrpc", "id", "error"}}
              /\ "result" \in DOMAIN o =>
                    s.result_or_error.t = "Result" /\ o["result"] = s.result_or_error.value
              /\ "error" \in DOMAIN o =>
                    /\ s.result_or_error.t = "Error"
                    /\ o["error"].t = "Object"
                    /\ LET e == o["error"].o
                           err == s.result_or_error.error
                       IN /\ {"code", "message"} \subseteq DOMAIN e
                          /\ IF is_negative(err.code)
                             THEN e["code"].t = "I64" /\ I64(e["code"].i) = err.code
                             ELSE e["code"] = Value_U64(err.code)
                          /\ e["message"] = Value_String(err.message)
                          /\ "data" \in DOMAIN e <=> err.data.some
                          /\ err.data.some => e["data"] = err.data.v
                          /\ DOMAIN e \subseteq {"code", "message", "data"}

\* an error response with id Null and no data was serialized
C19_Witness ==
    /\ SerializedResponse
    /\ fn_in.response.id = RpcId_Null
    /\ fn_in.response.result_or_error = ResponseResult_Error(error_JSON_RPC_MethodNotFound)

\* the calls of parse_transport_message
Framed == fn_in.fn = "parse_transport_message" /\ fn_in.form = "whole" /\ fn_pc # "call"

\* C20: for a stream of header lines with one Content-Length line of value N >= 1, the
\* empty line, a payload of N bytes and trailing bytes, parse_transport_message
\* returns the payload unchanged and leaves the reader at the trailing bytes, where
\* the next call begins.
C20_FramerReturnsPayload ==
    Framed =>
        /\ Len(fn_out.results) >= 1
        /\ fn_out.results[1] = Ok(fn_in.payload)
        /\ (Len(fn_out.results) = 1 /\ fn_pc = "returned") => fn_out.reader = fn_in.trailing
        /\ Len(fn_out.results) = 2 =>
              /\ fn_in.trailing = NextMessage
              /\ fn_out.results[2] = Ok(<<"z">>)
              /\ fn_out.reader = <<>>
        /\ (fn_in.trailing = NextMessage /\ fn_pc = "returned") \/ Len(fn_out.results) = 1

\* the header lines of a message, with the empty line
Headers(call) == call.before \o call.length_line \o call.after \o <<CR, LF>>

\* the calls on a stream that ends before the empty line is read
CutInHeaders ==
    /\ fn_in.fn = "parse_transport_message" /\ fn_in.form = "cut"
    /\ fn_in.kept < Len(Headers(fn_in.whole))
    /\ fn_pc # "call"

\* C21: parse_transport_message returns on every finite input, and when the stream
\* ends before the empty header line is read it returns an error.
C21_FramerTerminates ==
    /\ fn_in.fn = "parse_transport_message" => fn_pc # "hangs"
    /\ CutInHeaders =>
          /\ fn_pc = "returned"
          /\ Len(fn_out.results) >= 1 /\ ~fn_out.results[1].ok

\* the calls on a stream that ends after the empty line and before the end of the
\* payload
CutInPayload ==
    /\ fn_in.fn = "parse_transport_message" /\ fn_in.form = "cut"
    /\ fn_in.kept >= Len(Headers(fn_in.whole))
    /\ fn_pc # "call"

\* C22: a payload that parse_transport_message returns has exactly content_length
\* bytes, and a stream with fewer bytes after the empty line gives no payload.
C22_PayloadHasContentLength ==
    /\ (Framed /\ Len(fn_out.results) >= 1 /\ fn_out.results[1].ok) =>
          Bytes(fn_out.results[1].v) = Bytes(fn_in.payload)
    /\ (CutInPayload /\ Len(fn_out.results) >= 1) => ~fn_out.results[1].ok

\* the calls on a stream whose headers have no Content-Length line or one of value 0
WithoutLength ==
    fn_in.fn = "parse_transport_message" /\ fn_in.form = "no length" /\ fn_pc # "call"

\* C23: when the header lines up to the empty line have no Content-Length line, or
\* one of value 0, parse_transport_message fails with the message
\* 'Content-Length: not defined or invalid.' and has read nothing after the empty line.
C23_NoLengthIsAnError ==
    WithoutLength =>
        /\ Len(fn_out.results) >= 1
        /\ fn_out.results[1] = Err("Content-Length: not defined or invalid.")
        /\ (Len(fn_out.results) = 1 /\ fn_pc = "returned") =>
              fn_out.reader = fn_in.payload \o fn_in.trailing

\* the call failed on headers with a Content-Length line of value 0 after another
\* header line, and the payload and the next message are still to read
C23_Witness ==
    /\ WithoutLength
    /\ fn_in.length_line # <<>> /\ fn_in.before # <<>>
    /\ fn_in.trailing = NextMessage
    /\ Len(fn_out.results) = 1
    /\ ~fn_out.results[1].ok
    /\ fn_out.reader = fn_in.payload \o NextMessage

\* the call without the header lines other than the Content-Length line
WithoutOtherHeaders == [fn_in EXCEPT !.before = <<>>, !.after = <<>>]

\* the calls on a stream with all its header lines and the empty line
WithHeaders ==
    /\ fn_in.fn = "parse_transport_message" /\ fn_in.form \in {"whole", "no length"}
    /\ fn_pc # "call"

\* C24: header lines other than Content-Length, before or after the Content-Length
\* line, do not change what parse_transport_message returns nor where it leaves the
\* reader: both are as for the stream without these lines.
C24_OtherHeadersIgnored ==
    WithHeaders =>
        /\ Len(fn_out.results) >= 1
        /\ fn_out.results[1] = parse_transport_message(Stream(WithoutOtherHeaders)).result
        /\ (Len(fn_out.results) = 1 /\ fn_pc = "returned") =>
              fn_out.reader = parse_transport_message(Stream(WithoutOtherHeaders)).reader

\* a payload was returned from a stream with a header line before the Content-Length
\* line and one after it
C24_Witness ==
    /\ WithHeaders /\ fn_in.form = "whole"
    /\ fn_in.before # <<>> /\ fn_in.after # <<>>
    /\ Len(fn_out.results) = 1
    /\ fn_out.results[1] = Ok(fn_in.payload)
    /\ fn_in.trailing # <<>>

\* the calls of send_notification that have returned
Notified ==
    fn_in.fn = "send_notification" /\ ~fn_in.after_shutdown /\ fn_pc = "returned"

\* what send_notification does when it sends: one write task was submitted and accepted,
\* of a request with the method and the params and without id, whose text has no id
\* member; no handler ran; Ok was returned
SentAsNotification ==
    /\ fn_out.result.ok /\ ~fn_out.panicked
    /\ Len(submits) = 1 /\ submits[1].accepted /\ queue = <<1>>
    /\ submits[1].rpc_message =
          JsonRpcMessage_Request(
              JsonRpcRequest(None, fn_in.method, parse_jsonrpc_params(fn_in.params).v))
    /\ LET text == from_str(to_string(submits[1].rpc_message))
       IN /\ text.ok /\ text.v.t = "Object"
          /\ DOMAIN text.v.o = {"jsonrpc", "method", "params"}
          /\ text.v.o["method"] = Value_String(fn_in.method)
          /\ text.v.o["params"] = fn_in.params
    /\ completables = <<>> /\ handler_threads = {}

\* C25 as stated: send_notification(method, params) on a running endpoint submits
\* exactly one write task, of a request with that method and params and no id member,
\* invokes no request handler and returns Ok.
C25_AsStated == Notified => SentAsNotification

\* C25: send_notification(method, params) on a running endpoint does what
\* do_send_request with id None does; when the params serialize to an object, an
\* array or null it submits exactly one write task, of a request with that method and
\* params and no id member, invokes no request handler and returns Ok.
C25_SendNotification ==
    Notified =>
        /\ LET sent == do_send_request(None, fn_in.method, fn_in.params, FALSE)
           IN /\ fn_out.result.ok = sent.result.ok
              /\ submits = IF sent.write.some
                           THEN <<[by |-> "app", src |-> 0, rpc_message |-> sent.write.v,
                                   accepted |-> TRUE, was_shutdown |-> FALSE]>>
                           ELSE <<>>
        /\ fn_in.params.t \in {"Object", "Array", "Null"} => SentAsNotification

\* a notification of async_method with the sample params was sent
C25_Witness ==
    /\ Notified /\ fn_in.method = "async_method" /\ fn_in.params.t = "Object"
    /\ Len(submits) = 1

\* the places of the output stream where a response completed on the reader thread
\* (by a handler of add_request or add_notification, or by handle_message itself) is
\* written whole
SyncWritten ==
    {p \in DOMAIN output : output[p].part = "body" /\ submits[output[p].task].by = "reader"}

\* C26: the responses completed on the reader thread, as those of the synchronous
\* handlers are, appear on the output stream in the order in which their requests
\* were read: a response is written after the responses to the requests read before.
C26_SyncResponsesInReadOrder ==
    /\ \A p, q \in SyncWritten :
          p < q => submits[output[p].task].src < submits[output[q].task].src
    /\ \A q \in SyncWritten :
          \A k \in DOMAIN submits :
              (submits[k].by = "reader" /\ submits[k].accepted
                 /\ submits[k].src < submits[output[q].task].src) =>
                  \/ k \in failed_writes
                  \/ \E p \in SyncWritten : p < q /\ output[p].task = k

\* the responses to two requests of my_method, read one after the other, are written
C26_Witness ==
    \E p, q \in SyncWritten :
        /\ p < q
        /\ handled[submits[output[p].task].src].message = MsgRequest
        /\ handled[submits[output[q].task].src].message = MsgRequest

\* C27: once the read loop has shut the endpoint down on a read error and shutdown has
\* returned, the output stream receives no further bytes, and a handler thread that
\* completes its ResponseCompletable then submits its response in vain: the task is
\* rejected and not queued, and the handler thread panics, no other thread.
C27_CompletionAfterReaderShutdown ==
    [][reader_pc = "returned" =>
          /\ output' = output
          /\ handler_threads' # handler_threads =>
                /\ Len(submits') = Len(submits) + 1
                /\ LET k == Len(submits')
                   IN /\ submits'[k].by = "handler"
                      /\ submits'[k].rpc_message.t = "Response"
                      /\ ~submits'[k].accepted
                      /\ [thread |-> "handler", reason |-> RejectedPanic] \in panics'
                /\ queue' = queue
                /\ reader_pc' = reader_pc /\ app_pc' = app_pc
                /\ UNCHANGED <<endpoint_poisoned, agent_shutdown>>]_vars

\* the read loop has returned its read error, and the thread of async_method has then
\* completed its request and panicked on the rejected write
C27_Witness ==
    /\ reader_pc = "returned"
    /\ \E k \in DOMAIN submits :
          /\ submits[k].by = "handler" /\ submits[k].was_shutdown /\ ~submits[k].accepted
          /\ handled[submits[k].src].message = MsgAsync
    /\ [thread |-> "handler", reason |-> RejectedPanic] \in panics
    /\ handler_threads = {}

\* the conversions of a ServiceError that have returned
Converted == fn_in.fn = "service_error" /\ fn_pc = "returned"

\* C28: the ServiceError of a handler becomes the response error whose code is the
\* same number as a signed 64-bit integer (the upper 32 bits zero, hence in
\* 0..4294967295 and not negative), whose message is unchanged and whose data is
\* present, also when it is the unit value; the written error has code, message and
\* data with these values.
C28_ServiceErrorConversion ==
    Converted =>
        /\ LET e == fn_out.rpc_error
           IN /\ e.code[1] = 0 /\ e.code[2] = 0
              /\ e.code[3] = fn_in.error.code[1] /\ e.code[4] = fn_in.error.code[2]
              /\ ~is_negative(e.code)
              /\ e.message = fn_in.error.message
              /\ e.data = Some(fn_in.error.data)
              /\ fn_out.from_service_result = ResponseResult_Error(e)
        /\ fn_out.text.ok /\ fn_out.text.v.t = "Object"
        /\ "error" \in DOMAIN fn_out.text.v.o
        /\ LET o == fn_out.text.v.o["error"].o
           IN /\ DOMAIN o = {"code", "message", "data"}
              /\ o["code"] = Value_U64(<<0, 0, fn_in.error.code[1], fn_in.error.code[2]>>)
              /\ o["message"] = Value_String(fn_in.error.message)
              /\ o["data"] = fn_in.error.data

\* the error with the code 2^32 - 32700 and the unit value as data was converted
C28_Witness ==
    /\ Converted
    /\ fn_in.error.code = <<Limb - 1, Limb + CodeParseError>>
    /\ fn_in.error.data = Value_Null
    /\ fn_out.rpc_error.data = Some(Value_Null)

\* the calls of parse_jsonrpc_request on the text of a message that have returned
ParsedRequest ==
    /\ fn_in.fn = "parse_jsonrpc_request" /\ fn_pc = "returned"
    /\ fn_in.root = "object"
    /\ fn_in.jsonrpc = Some(Value_String("2.0")) /\ fn_in.method = Some(Value_String("xxx"))

\* an id that parse_jsonrpc_id accepts: none, null, an integer or a string
AcceptedId(id) == ~id.some \/ id.v.t \in {"Null", "U64", "I64", "String"}

\* C29: parse_jsonrpc_request gives a request only when the params key is present with
\* an object (Object), an array (Array) or null (None); without the key, or with a
\* number, a string or a boolean, it gives the error InvalidRequest (-32600).
C29_ParamsStructured ==
    ParsedRequest =>
        /\ fn_out.ok =>
              /\ fn_in.params.some
              /\ fn_in.params.v.t \in {"Object", "Array", "Null"}
              /\ fn_out.v.params =
                    CASE fn_in.params.v.t = "Object" -> RequestParams_Object(fn_in.params.v.o)
                      [] fn_in.params.v.t = "Array" -> RequestParams_Array(fn_in.params.v.a)
                      [] fn_in.params.v.t = "Null" -> RequestParams_None
        /\ (fn_in.params.some /\ fn_in.params.v.t \in {"Object", "Array", "Null"}
              /\ AcceptedId(fn_in.id)) => fn_out.ok
        /\ (~fn_in.params.some \/ fn_in.params.v.t \notin {"Object", "Array", "Null"}) =>
              /\ ~fn_out.ok
              /\ fn_out.err.code = I64(CodeInvalidRequest)
        /\ (~fn_in.params.some /\ AcceptedId(fn_in.id)) =>
              fn_out = Err(error_JSON_RPC_InvalidRequest("Property 'params' is missing."))

\* a message whose params is a string was rejected for its params
C29_Witness ==
    /\ ParsedRequest
    /\ fn_in.params = Some(Value_String("s")) /\ fn_in.id = Some(Value_U64(U64(123)))
    /\ fn_out = Err(error_JSON_RPC_InvalidRequest(
                        "Property 'params' not an Object, Array, or null."))

\* C30: parse_jsonrpc_request gives the id None for a message without id and for one
\* with the id null, which is parsed as the message without id is; an integer gives
\* Number, a string gives String, and a boolean, a float, an array or an object
\* gives the error InvalidRequest.
C30_IdParsing ==
    (ParsedRequest /\ fn_in.params.some /\ fn_in.params.v.t \in {"Object", "Array", "Null"}) =>
        /\ ~fn_in.id.some => fn_out.ok /\ fn_out.v.id = None
        /\ (fn_in.id.some /\ fn_in.id.v.t = "Null") =>
              /\ fn_out.ok /\ fn_out.v.id = None
              /\ fn_out = parse_jsonrpc_request(RequestText([fn_in EXCEPT !.id = None]))
        /\ (fn_in.id.some /\ fn_in.id.v.t \in {"U64", "I64"}) =>
              fn_out.ok /\ fn_out.v.id.some /\ fn_out.v.id.v.t = "Number"
        /\ (fn_in.id.some /\ fn_in.id.v.t = "U64") =>
              fn_out.v.id = Some(RpcId_Number(fn_in.id.v.u))
        /\ (fn_in.id.some /\ fn_in.id.v.t = "String") =>
              fn_out.ok /\ fn_out.v.id = Some(RpcId_String(fn_in.id.v.s))
        /\ ~AcceptedId(fn_in.id) =>
              fn_out = Err(error_JSON_RPC_InvalidRequest(
                               "Property 'id' not a String or integer."))

\* a message with the id null and an object as params was parsed
C30_Witness ==
    /\ ParsedRequest
    /\ fn_in.id = Some(Value_Null) /\ fn_in.params = Some(Value_Object(JsonObject_new))
    /\ fn_out.ok

\* the calls of dispatch of the older JsonRpcDispatcher that have returned
Dispatched == fn_pc = "returned" /\ fn_in.fn = "dispatch"

\* C31: dispatch of the older JsonRpcDispatcher returns Err(MethodNotFound) for a
\* request whose method has no entry in dispatcher_map, and Err(InvalidParams) for a
\* request whose params do not decode into the parameter type of the handler that
\* add_request registered for its method
C31_DispatchErrors ==
    Dispatched =>
        LET dispatcher_map == dispatcher_map_after(fn_in.registrations)
        IN /\ fn_in.method \notin DOMAIN dispatcher_map
                => /\ ~fn_out.result.ok
                   /\ fn_out.result.err = json_rpc_error_JSON_RPC_MethodNotFound
           /\ ( /\ fn_in.method \in DOMAIN dispatcher_map
                /\ dispatcher_map[fn_in.method].kind = "add_request"
                /\ ~from_value(method_fn_type(dispatcher_map[fn_in.method].fn),
                               Value_Object(fn_in.params_map)).ok )
                => /\ ~fn_out.result.ok
                   /\ fn_out.result.err = json_rpc_error_JSON_RPC_InvalidParams

\* the checks of parse_jsonrpc_request that fail on the message of a call, in the
\* order JSON syntax, root, jsonrpc, id, method, params: for each the error code and
\* the text that tells which check failed
Defects(call) ==
    LET InvalidRequest(text) ==
            [code |-> CodeInvalidRequest,
             message |-> "The JSON sent is not a valid Request object: " \o text]
        syntax == IF call.root = "cut"
                  THEN <<[code |-> CodeParseError,
                          message |-> "Invalid JSON was received by the server: "
                                      \o "EOF while parsing an object"]>>
                  ELSE <<>>
        root == IF call.root = "array"
                THEN <<InvalidRequest("Value 'Array' is not an Object.")>>
                ELSE <<>>
        jsonrpc == CASE ~call.jsonrpc.some
                          -> <<InvalidRequest("Property 'jsonrpc' is missing.")>>
                     [] call.jsonrpc.some /\ call.jsonrpc.v.t # "String"
                          -> <<InvalidRequest("Value 'U64' is not a String.")>>
                     [] call.jsonrpc.some /\ call.jsonrpc.v = Value_String("1.0")
                          -> <<InvalidRequest("Property 'jsonrpc' is not \"2.0\". ")>>
                     [] OTHER -> <<>>
        id == IF call.id.some /\ call.id.v.t \notin {"Null", "I64", "U64", "String"}
              THEN <<InvalidRequest("Property 'id' not a String or integer.")>>
              ELSE <<>>
        method == CASE ~call.method.some
                         -> <<InvalidRequest("Property 'method' is missing.")>>
                    [] call.method.some /\ call.method.v.t # "String"
                         -> <<InvalidRequest("Value 'null' is not a String.")>>
                    [] OTHER -> <<>>
        params == CASE ~call.params.some
                         -> <<InvalidRequest("Property 'params' is missing.")>>
                    [] call.params.some
                       /\ call.params.v.t \notin {"Object", "Array", "Null"}
                         -> <<InvalidRequest(
                                "Property 'params' not an Object, Array, or null.")>>
                    [] OTHER -> <<>>
    IN syntax \o root \o jsonrpc \o id \o method \o params

\* the calls of parse_jsonrpc_request that have returned
ParsedText == fn_in.fn = "parse_jsonrpc_request" /\ fn_pc = "returned"

\* C32: parse_jsonrpc_request checks in the order JSON syntax, root is an object,
\* jsonrpc present and equal to "2.0", id, method, params, and the first failing check
\* alone determines the error: code -32700 only for a JSON syntax failure and -32600
\* for every other failure, so a message with several defects reports the earliest
\* one, and a message with none is parsed
C32_EarliestDefectReported ==
    ParsedText =>
        LET defects == Defects(fn_in)
        IN IF defects = <<>> THEN fn_out.ok
           ELSE /\ ~fn_out.ok
                /\ fn_out.err.code = I64(Head(defects).code)
                /\ fn_out.err.message = Head(defects).message
                /\ fn_out.err.code = I64(CodeParseError) <=> fn_in.root = "cut"

\* a message with a defect in each member: jsonrpc "1.0", an id that is an array, a
\* method that is null and params that are a string; and the same text cut short
C32_Witness ==
    /\ ParsedText
    /\ fn_in.jsonrpc = Some(Value_String("1.0"))
    /\ fn_in.id = Some(Value_Array(<<Value_U64(U64(1))>>))
    /\ fn_in.method = Some(Value_Null)
    /\ fn_in.params = Some(Value_String("s"))
    /\ Len(Defects(fn_in)) >= 4
    /\ ~fn_out.ok

\* the requests handed to the handler of add_rpc_handler, which moves the completable
\* to a thread of its own
AsyncRequests ==
    {i \in DOMAIN handled : Parsed(i).ok /\ Parsed(i).v.method = "async_method"}

\* the places of the output stream where the body of the message of task k ends
Bodies(k) == {p \in DOMAIN output : output[p] = [task |-> k, part |-> "body"]}

\* C33: with an asynchronous handler the responses are not tied to the order of
\* arrival (the response to a later request may be written before the response to
\* an earlier one), and still each response is written exactly once: the thread of
\* a request submits one response with the id of its request and no other message is
\* submitted for the request, and a response accepted by the running output agent is
\* on the output stream once when the worker is done with it, unless the write to
\* the stream failed
C33_AsyncResponsesOnce ==
    \A i \in AsyncRequests :
        /\ Cardinality(SubmitsFor(i)) <= 1
        /\ (\A t \in handler_threads : completables[t.c].req # i)
              => Cardinality(SubmitsFor(i)) = 1
        /\ \A k \in SubmitsFor(i) :
              /\ submits[k].by = "handler"
              /\ submits[k].rpc_message.t = "Response"
              /\ Some(submits[k].rpc_message.response.id) = Parsed(i).v.id
              /\ Cardinality(Bodies(k)) <= 1
              /\ ( /\ submits[k].accepted
                   /\ k \notin failed_writes
                   /\ \A q \in DOMAIN queue : queue[q] # k
                   /\ ~(worker_pc = "write_body" /\ worker_task = k) )
                    => Cardinality(Bodies(k)) = 1

\* two requests of async_method were read one after the other, and the response to
\* the second is on the output stream before the response to the first
C33_Witness ==
    \E i, j \in AsyncRequests :
        /\ i < j
        /\ \E k \in SubmitsFor(i), l \in SubmitsFor(j) :
              \E p \in Bodies(k), q \in Bodies(l) : q < p

\* a request with an integer id was handled
RequestIdHandled == fn_pc = "returned" /\ fn_in.fn = "request_id"

\* the u64 u and the natural number m add up to 2^64
AddsUpToTwoTo64(u, m) ==
    LET s4 == u[4] + (m % Limb)
        s3 == u[3] + (m \div Limb) + (s4 \div Limb)
        s2 == u[2] + (s3 \div Limb)
        s1 == u[1] + (s2 \div Limb)
    IN /\ s4 % Limb = 0 /\ s3 % Limb = 0 /\ s2 % Limb = 0 /\ s1 = Limb

\* C34: an integer id is not always preserved: parse_jsonrpc_id maps a negative
\* integer id n to Number(n + 2^64), and the response carries that number, so the
\* response to a request with id -1 carries id 18446744073709551615 (all 64 bits
\* set); an id in 0 .. 2^64 - 1 is preserved exactly, in the request and the response
C34_NegativeIdWraps ==
    RequestIdHandled =>
        /\ fn_out.request.ok /\ fn_out.request.v.id.some
        /\ fn_out.request.v.id.v.t = "Number"
        /\ fn_out.response.some /\ fn_out.response.v.ok
        /\ fn_out.response.v.v.o["id"] = Value_U64(fn_out.request.v.id.v.n)
        /\ fn_in.id.t = "U64" => fn_out.request.v.id.v.n = fn_in.id.u
        /\ fn_in.id.t = "I64" =>
              /\ fn_out.response.v.v.o["id"] # fn_in.id
              /\ AddsUpToTwoTo64(fn_out.request.v.id.v.n, -fn_in.id.i)
        /\ fn_in.id = Value_I64(-1) =>
              fn_out.response.v.v.o["id"] =
                  Value_U64(<<Limb - 1, Limb - 1, Limb - 1, Limb - 1>>)

\* the request with id -1 was answered with the id 2^64 - 1 and the result of
\* sample_fn
C34_Witness ==
    /\ RequestIdHandled
    /\ fn_in.id = Value_I64(-1)
    /\ fn_out.response = Some(Ok(Value_Object(
            [jsonrpc |-> Value_String("2.0"),
             id |-> Value_U64(<<Limb - 1, Limb - 1, Limb - 1, Limb - 1>>),
             result |-> Value_String("1020")])))
    /\ Len(submits) = 1

\* the inbound requests that carry an id and name a method registered with
\* add_notification, handled on a running endpoint
RequestsOfNotifications ==
    {i \in DOMAIN handled :
        /\ handled[i].running
        /\ Parsed(i).ok /\ Parsed(i).v.id.some
        /\ Parsed(i).v.method \in DOMAIN method_handlers
        /\ method_handlers[Parsed(i).v.method].kind = "add_notification"}

\* C35: a request that carries an id and names a method registered with
\* add_notification receives no response when its params decode:
\* sync_handle_notification completes the completable, once, with None, so no write
\* task is submitted for the request and nothing is written for it, although the
\* inbound message is not a notification
C35_RequestOfNotificationUnanswered ==
    \A i \in RequestsOfNotifications :
        ParamsDecode(Parsed(i).v) =>
            /\ SubmitsFor(i) = {}
            /\ \A p \in DOMAIN output : submits[output[p].task].src # i
            /\ \E c \in DOMAIN completables :
                  /\ completables[c].req = i
                  /\ completables[c].id = Parsed(i).v.id
                  /\ completables[c].completion_flag /\ completables[c].calls = 1
                  /\ ~completables[c].drop_panic

\* the request of exit with the id 3 was handled, the read loop has ended and the
\* worker has exited, and nothing was submitted for the request
C35_Witness ==
    \E i \in RequestsOfNotifications :
        /\ handled[i].message = MsgExitWithId
        /\ Parsed(i).v.id = Some(RpcId_Number(U64(3)))
        /\ reader_pc = "returned" /\ worker_pc = "exited"
        /\ SubmitsFor(i) = {}

\* the call is a send whose params serialize to a JSON scalar: a number, a string or
\* a boolean
ScalarSend ==
    /\ fn_in.fn \in {"send_notification", "do_send_request"}
    /\ fn_in.params.t \notin {"Object", "Array", "Null"}

\* C36: do_send_request and send_notification whose params serialize to a JSON scalar
\* return an error and leave the endpoint unchanged: no write task is submitted,
\* nothing is queued or written and no thread panics; so it is also when the endpoint
\* is already shut down
C36_ScalarParamsRejected ==
    [][(ScalarSend /\ fn_pc = "call" /\ fn_pc' = "returned") =>
          /\ fn_out' = [result |-> Err("Property 'params' not an Object, Array, or null."),
                        panicked |-> FALSE]
          /\ UNCHANGED endpointVars
          /\ submits' = <<>> /\ output' = <<>> /\ panics' = {}
          /\ agent_shutdown' = fn_in.after_shutdown]_vars

\* do_send_request with an id and the params 7 returned its error after the shutdown
\* of the endpoint had returned
C36_Witness ==
    /\ ScalarSend /\ fn_pc = "returned"
    /\ fn_in.fn = "do_send_request" /\ fn_in.id = Some(RpcId_Number(U64(9)))
    /\ fn_in.params = Value_U64(U64(7))
    /\ fn_in.after_shutdown /\ agent_shutdown /\ worker_pc = "exited"
    /\ ~fn_out.result.ok /\ ~fn_out.panicked

\* the calls of submit_write_task whose submission the output agent rejected
FailedSubmissions == {k \in DOMAIN submits : ~submits[k].accepted}

\* C37: submit_write_task holds the mutex of the output agent only for the
\* try_submit_task call and panics on a rejected submission after it has released
\* the mutex: in no reachable state is the mutex held by a thread that has panicked,
\* nor poisoned by one that panicked holding it, so a failed submission leaves the
\* mutex to the other threads (free, or held by a thread that joins the worker in
\* shutdown and has not panicked)
C37_AgentMutexNeverPoisoned ==
    /\ agent_mutex \in {"free", "reader", "app"}
    /\ \A p \in panics : agent_mutex # p.thread
    /\ agent_mutex = "reader" => reader_pc = "join"
    /\ agent_mutex = "app" => app_pc = "join"
    /\ FailedSubmissions # {} =>
          \E p \in panics : p.reason = "Output agent is shutdown or thread panicked!"

\* after the submission of a handler thread failed, a second handler thread took the
\* mutex and had its submission rejected as well, and the application thread called
\* is_shutdown on the endpoint
C37_Witness ==
    /\ \E k, l \in FailedSubmissions :
          k < l /\ submits[k].by = "handler" /\ submits[l].by = "handler"
    /\ app_result = Some([op |-> "is_shutdown", v |-> TRUE])
    /\ app_ops = 2
    /\ agent_mutex = "free"

\* the threads that wait: the reader for the mutex of the endpoint or for the join of
\* the worker, the application thread for the join, a handler thread for the mutex of
\* the output agent
ReaderWaits == reader_pc \in {"handle_message", "shutdown", "join"}
AppWaits == app_pc = "join"
HandlerWaits == handler_threads # {}

\* C38: the reader thread, the writer thread, the application thread on the
\* EndpointHandle and the asynchronous handler threads never deadlock: the read loop
\* does not hold the mutex of the endpoint while it is in read_next, the mutex of the
\* output agent is held together with that of the endpoint by the same thread or by
\* nobody (order: endpoint, then output agent), a mutex is held across steps only by
\* the thread that joins the worker in shutdown, and under the scheduling of the
\* threads every waiting reader, application thread and handler thread goes on, so
\* every mutex that is held is released
C38_NoDeadlock ==
    /\ [](reader_pc = "read_next" => endpoint_mutex # "reader")
    /\ [](agent_mutex # "free" => endpoint_mutex = agent_mutex)
    /\ [](endpoint_mutex = "reader" => reader_pc = "join")
    /\ [](endpoint_mutex = "app" => app_pc = "join")
    /\ [](endpoint_mutex \in {"free", "reader", "app"})
    /\ ReaderWaits ~> (reader_pc \in {"read_next", "returned", "panicked"})
    /\ AppWaits ~> (app_pc = "idle")
    /\ HandlerWaits ~> (handler_threads = {})

\* the four kinds of thread meet: the application thread holds both mutexes and joins
\* the worker, which is in the middle of a message, while the reader waits for the
\* mutex of the endpoint with a message to handle and a handler thread waits for the
\* mutex of the output agent
C38_Witness ==
    /\ endpoint_mutex = "app" /\ agent_mutex = "app" /\ app_pc = "join"
    /\ reader_pc = "handle_message"
    /\ handler_threads # {}
    /\ worker_pc = "write_body"
====
